---- MODULE Spec2Model ----
(***************************************************************************)
(* Story Assessment Pipeline of QAPerformanceMetrics.                      *)
(*                                                                         *)
(* Conventions of the model                                                *)
(*  - A score is an integer number of hundredths: 100.00 is 10000, so that *)
(*    Python's round(x, 2) is a rounding to an integer (Round2).           *)
(*  - A text is the sequence of its whitespace-separated raw words; the    *)
(*    normalisation (lower-casing, punctuation to blanks) is the table     *)
(*    NormWord.                                                            *)
(*  - The compliance status string is the sequence of its " | "-separated  *)
(*    segments: <<"Compliant">> or the violations in order.                *)
(*  - None is NoneStr for strings and NoTime for timestamps.               *)
(***************************************************************************)
EXTENDS Integers, Sequences, FiniteSets, TLC

VARIABLES pc, args, ret, env, loc, row

vars == <<pc, args, ret, env, loc, row>>

\* ------------------------------------------------------------------------
\* Bounds of the model
\* ------------------------------------------------------------------------

MaxHist == 2

MaxTests == 1

\* ------------------------------------------------------------------------
\* Generic helpers
\* ------------------------------------------------------------------------

NoneStr == "<None>"

NoTime == 0

NoResult == [op |-> "none"]

\* the story variables, for the specifications of the single functions
NoStory == env = NoResult /\ loc = NoResult /\ row = NoResult

SeqsUpTo(S, n) == UNION {[1..k -> S] : k \in 0..n}

Range(s) == {s[i] : i \in 1..Len(s)}

Min(a, b) == IF a <= b THEN a ELSE b

Max(a, b) == IF a >= b THEN a ELSE b

\* str.strip().lower() on the raw state names the model draws from
StripLower(s) ==
    CASE s = "Passed QA "      -> "passed qa"
      [] s = "QA In Progress"  -> "qa in progress"
      [] s = " Rework"         -> "rework"
      [] s = "Ready"           -> "ready"
      [] s = "Needs Review"    -> "needs review"
      [] s = "Design"          -> "design"
      [] s = "New"             -> "new"
      [] s = "Ready For QA"    -> "ready for qa"
      [] s = "Test Case"       -> "test case"
      [] s = "Bug"             -> "bug"
      [] OTHER                 -> s

\* (s or "").strip().lower()
NormState(s) == IF s = NoneStr THEN "" ELSE StripLower(s)

NormStates(seq) == [i \in DOMAIN seq |-> NormState(seq[i])]

\* ------------------------------------------------------------------------
\* workflow_compliance_engine.evaluate_compliance
\* ------------------------------------------------------------------------

V_PassedBeforeTests == "Violation - Test Cases Created After Story Was Passed QA"
V_ReviewBeforeTests == "Violation - Review Toggle Enabled Before Test Cases Were Created"
V_AuthoredNoTests   == "Violation - Tests Authored Toggle Enabled But No Test Cases Exist"
V_TestsToggleOff    == "Violation - Test Cases Exist But Tests Authored Toggle Is OFF"
V_ModifiedBefore    == "Violation - Test Cases Modified Before Tests Authored Toggle Enabled"
V_NotNeedsReview    == "Violation - Tests Authored But Not In 'Needs Review' State"
V_SkippedReview     == "Violation - Test Case Skipped Review Phase (Moved Directly To Ready)"
V_ReviewNoLifecycle == "Violation - Review Toggle Enabled Without Any Test Case Entering 'Needs Review' State"
V_PassedNoTests     == "Violation - Story Passed QA Without Any Test Cases"
V_PassedNoAuthored  == "Violation - Story Passed QA Without Tests Authored Toggle Enabled"
V_PassedNoReviewed  == "Violation - Story Passed QA Without Tests Reviewed Toggle Enabled"
V_StillNeedsReview  == "Violation - Test Case Still In 'Needs Review' At Passed QA"
V_NotAllReady       == "Violation - Story Passed QA But Not All Test Cases Are In 'Ready' State"
V_SkippedQAIP       == "Violation - QA Skipped 'QA In Progress' State Before Passing"
V_NoActiveQA        == "Violation - Passed QA Without Active QA Execution"
V_ReworkSkip        == "Violation - Dev Skipped 'Ready For QA' After Rework (QA Had To Start Without Proper Handoff)"
V_QABeforeHandoff   == "Violation - QA Started Before Dev Handoff"
V_Reopened          == "Violation - Story Reopened After Passed QA"

\* one rule: the violation it appends and whether it sets severe_violation
Rule(cond, msg, sev) ==
    IF cond THEN [v |-> <<msg>>, s |-> sev] ELSE [v |-> <<>>, s |-> FALSE]

\* rules applied in sequence: violations appended in order, severe or-ed
Then(r1, r2) == [v |-> r1.v \o r2.v, s |-> r1.s \/ r2.s]

NoRule == [v |-> <<>>, s |-> FALSE]

\* the inputs after the normalisation of lines 21-23
Normalized(a) ==
    [a EXCEPT !.state = NormState(a.state),
              !.test_states = NormStates(a.test_states),
              !.state_history = NormStates(a.state_history)]

\* lines 29-49 only: the authored-toggle rule of lines 51-55 left out
CriticalStructuralRulesNoAuthored(a) ==
    Then(Rule(/\ a.state = "passed qa"
              /\ a.passed_qa_time # NoTime
              /\ a.earliest_test_created_time # NoTime
              /\ a.passed_qa_time < a.earliest_test_created_time,
              V_PassedBeforeTests, TRUE),
         Rule(/\ a.tests_reviewed
              /\ a.review_toggle_time # NoTime
              /\ a.earliest_test_created_time # NoTime
              /\ a.review_toggle_time < a.earliest_test_created_time,
              V_ReviewBeforeTests, TRUE))

\* lines 29-55 with <= in place of < in the two comparisons of timestamps
CriticalStructuralRulesNotStrict(a) ==
    Then(Rule(/\ a.state = "passed qa"
              /\ a.passed_qa_time # NoTime
              /\ a.earliest_test_created_time # NoTime
              /\ a.passed_qa_time <= a.earliest_test_created_time,
              V_PassedBeforeTests, TRUE),
    Then(Rule(/\ a.tests_reviewed
              /\ a.review_toggle_time # NoTime
              /\ a.earliest_test_created_time # NoTime
              /\ a.review_toggle_time <= a.earliest_test_created_time,
              V_ReviewBeforeTests, TRUE),
         Rule(a.tests_authored /\ a.tc_count = 0,
              V_AuthoredNoTests, TRUE)))

\* lines 29-55, on normalised inputs
CriticalStructuralRules(a) ==
    Then(Rule(/\ a.state = "passed qa"
              /\ a.passed_qa_time # NoTime
              /\ a.earliest_test_created_time # NoTime
              /\ a.passed_qa_time < a.earliest_test_created_time,
              V_PassedBeforeTests, TRUE),
    Then(Rule(/\ a.tests_reviewed
              /\ a.review_toggle_time # NoTime
              /\ a.earliest_test_created_time # NoTime
              /\ a.review_toggle_time < a.earliest_test_created_time,
              V_ReviewBeforeTests, TRUE),
         Rule(a.tests_authored /\ a.tc_count = 0,
              V_AuthoredNoTests, TRUE)))

\* lines 61-76 with tc_count >= 0 in place of tc_count > 0 in the first rule
TestGovernanceRulesOffByOne(a) ==
    Then(Rule(~a.tests_authored /\ a.tc_count >= 0,
              V_TestsToggleOff, FALSE),
    Then(Rule(/\ ~a.tests_authored /\ a.tc_count > 0
              /\ \E s \in Range(a.test_states) : s # "design",
              V_ModifiedBefore, FALSE),
         Rule(/\ a.tests_authored /\ ~a.tests_reviewed /\ a.tc_count > 0
              /\ \E s \in Range(a.test_states) : s # "needs review",
              V_NotNeedsReview, FALSE)))

\* lines 61-76
TestGovernanceRules(a) ==
    Then(Rule(~a.tests_authored /\ a.tc_count > 0,
              V_TestsToggleOff, FALSE),
    Then(Rule(/\ ~a.tests_authored /\ a.tc_count > 0
              /\ \E s \in Range(a.test_states) : s # "design",
              V_ModifiedBefore, FALSE),
         Rule(/\ a.tests_authored /\ ~a.tests_reviewed /\ a.tc_count > 0
              /\ \E s \in Range(a.test_states) : s # "needs review",
              V_NotNeedsReview, FALSE)))

\* lines 82-94 with the skipped-review violation setting severe as well
ReviewLifecycleRulesSkipSevere(a) ==
    IF a.tests_reviewed /\ a.tc_count > 0 /\ ~a.review_lifecycle_detected
    THEN IF \E s \in Range(a.test_states) : s = "ready"
         THEN Rule(TRUE, V_SkippedReview, TRUE)
         ELSE Rule(TRUE, V_ReviewNoLifecycle, TRUE)
    ELSE NoRule

\* lines 82-94
ReviewLifecycleRules(a) ==
    IF a.tests_reviewed /\ a.tc_count > 0 /\ ~a.review_lifecycle_detected
    THEN IF \E s \in Range(a.test_states) : s = "ready"
         THEN Rule(TRUE, V_SkippedReview, FALSE)
         ELSE Rule(TRUE, V_ReviewNoLifecycle, TRUE)
    ELSE NoRule

\* lines 100-126 with the two toggle rules setting severe as well
PassedQARulesTogglesSevere(a) ==
    IF a.state = "passed qa"
    THEN Then(Rule(a.tc_count = 0, V_PassedNoTests, TRUE),
         Then(Rule(~a.tests_authored, V_PassedNoAuthored, TRUE),
         Then(Rule(~a.tests_reviewed, V_PassedNoReviewed, TRUE),
         Then(Rule(\E s \in Range(a.test_states) : s = "needs review",
                   V_StillNeedsReview, FALSE),
              Rule(/\ a.tc_count > 0
                   /\ \E s \in Range(a.test_states) : s # "ready",
                   V_NotAllReady, FALSE)))))
    ELSE NoRule

\* lines 100-126
PassedQARules(a) ==
    IF a.state = "passed qa"
    THEN Then(Rule(a.tc_count = 0, V_PassedNoTests, TRUE),
         Then(Rule(~a.tests_authored, V_PassedNoAuthored, FALSE),
         Then(Rule(~a.tests_reviewed, V_PassedNoReviewed, FALSE),
         Then(Rule(\E s \in Range(a.test_states) : s = "needs review",
                   V_StillNeedsReview, FALSE),
              Rule(/\ a.tc_count > 0
                   /\ \E s \in Range(a.test_states) : s # "ready",
                   V_NotAllReady, FALSE)))))
    ELSE NoRule

\* lines 137-150 with the second rule tested whether or not the first fired
PassedSequenceRulesBoth(a, states) ==
    IF a.state = "passed qa"
    THEN Then(Rule("qa in progress" \notin Range(states), V_SkippedQAIP, FALSE),
              Rule(Len(states) >= 2 /\ states[Len(states) - 1] # "qa in progress",
                   V_NoActiveQA, FALSE))
    ELSE NoRule

\* lines 137-150
PassedSequenceRules(a, states) ==
    IF a.state = "passed qa"
    THEN IF "qa in progress" \notin Range(states)
         THEN Rule(TRUE, V_SkippedQAIP, FALSE)
         ELSE Rule(Len(states) >= 2 /\ states[Len(states) - 1] # "qa in progress",
                   V_NoActiveQA, FALSE)
    ELSE NoRule

\* lines 155-159: for i in range(len(states) - 1), from position i on
RECURSIVE ReworkLoop(_, _)
ReworkLoop(states, i) ==
    IF i > Len(states) - 1 THEN NoRule
    ELSE Then(Rule(states[i] = "rework" /\ states[i + 1] = "qa in progress",
                   V_ReworkSkip, FALSE),
              ReworkLoop(states, i + 1))

\* lines 164-181 with the rework predecessor reported here as well
RECURSIVE QATransitionLoopWithRework(_, _)
QATransitionLoopWithRework(states, i) ==
    IF i > Len(states) - 1 THEN NoRule
    ELSE Then(IF states[i + 1] = "qa in progress"
              THEN IF states[i] \in {"design", "merged", "new"}
                   THEN Rule(TRUE, V_QABeforeHandoff, TRUE)
                   ELSE IF states[i] = "passed qa"
                   THEN Rule(TRUE, V_Reopened, FALSE)
                   ELSE Rule(states[i] = "rework", V_ReworkSkip, FALSE)
              ELSE NoRule,
              QATransitionLoopWithRework(states, i + 1))

\* lines 164-181
RECURSIVE QATransitionLoop(_, _)
QATransitionLoop(states, i) ==
    IF i > Len(states) - 1 THEN NoRule
    ELSE Then(IF states[i + 1] = "qa in progress"
              THEN IF states[i] \in {"design", "merged", "new"}
                   THEN Rule(TRUE, V_QABeforeHandoff, TRUE)
                   ELSE Rule(states[i] = "passed qa", V_Reopened, FALSE)
              ELSE NoRule,
              QATransitionLoop(states, i + 1))

\* lines 132-181
WorkflowRules(a) ==
    IF a.state_history # <<>>
    THEN Then(PassedSequenceRules(a, a.state_history),
         Then(ReworkLoop(a.state_history, 1),
              QATransitionLoop(a.state_history, 1)))
    ELSE NoRule

\* the whole function with the workflow rules evaluated before the Passed-QA
\* rules
evaluate_complianceWorkflowFirst(raw) ==
    LET a == Normalized(raw)
        r == Then(CriticalStructuralRules(a),
             Then(TestGovernanceRules(a),
             Then(ReviewLifecycleRules(a),
             Then(WorkflowRules(a),
                  PassedQARules(a)))))
    IN  IF r.v = <<>>
        THEN [status |-> <<"Compliant">>, severe |-> FALSE]
        ELSE [status |-> r.v, severe |-> r.s]

\* the whole function: (status, severe_violation)
evaluate_compliance(raw) ==
    LET a == Normalized(raw)
        r == Then(CriticalStructuralRules(a),
             Then(TestGovernanceRules(a),
             Then(ReviewLifecycleRules(a),
             Then(PassedQARules(a),
                  WorkflowRules(a)))))
    IN  IF r.v = <<>>
        THEN [status |-> <<"Compliant">>, severe |-> FALSE]
        ELSE [status |-> r.v, severe |-> r.s]

\* ------------------------------------------------------------------------
\* Specification of evaluate_compliance as a function of its ten inputs
\* ------------------------------------------------------------------------

RawStoryStates == {"Passed QA ", "qa in progress", NoneStr}

RawTestStates == {"design", "Needs Review", "Ready"}

HistStates == {"passed qa", "QA In Progress", " Rework", "design", "ready for qa"}

Times == {NoTime, 1, 2}

ComplianceArgs ==
    [state : RawStoryStates,
     tests_authored : BOOLEAN,
     tests_reviewed : BOOLEAN,
     test_states : SeqsUpTo(RawTestStates, MaxTests),
     tc_count : 0..MaxTests,
     state_history : SeqsUpTo(HistStates, MaxHist),
     review_lifecycle_detected : BOOLEAN,
     review_toggle_time : Times,
     earliest_test_created_time : {NoTime, 2},
     passed_qa_time : Times]

InitCompliance ==
    /\ pc = "call"
    /\ NoStory
    /\ args \in ComplianceArgs
    /\ ret = NoResult

EvaluateCompliance ==
    /\ pc = "call"
    /\ ret' = evaluate_compliance(args)
    /\ pc' = "done"
    /\ UNCHANGED <<args, env, loc, row>>

NextCompliance == EvaluateCompliance

SpecCompliance == InitCompliance /\ [][NextCompliance]_vars

\* C3: tests_authored on with zero test cases always gives a severe verdict
\* whose status contains the 'Tests Authored Toggle Enabled But No Test Cases
\* Exist' violation, and never 'Compliant'.
C3_AuthoredWithoutTestsIsSevere ==
    (pc = "done" /\ args.tests_authored /\ args.tc_count = 0)
        => /\ ret.severe
           /\ V_AuthoredNoTests \in Range(ret.status)
           /\ ret.status # <<"Compliant">>

C3_Witness ==
    /\ pc = "done" /\ args.tests_authored /\ args.tc_count = 0
    /\ ret.status = <<V_AuthoredNoTests>>

\* C4 as stated: tests_authored off, zero test cases and an empty history
\* give ("Compliant", False) whatever the remaining inputs are.
C4_Original ==
    (pc = "done" /\ ~args.tests_authored /\ args.tc_count = 0
                 /\ args.state_history = <<>>)
        => ret = [status |-> <<"Compliant">>, severe |-> FALSE]

C4_ReviewBeforeCreation(a) ==
    /\ a.tests_reviewed
    /\ a.review_toggle_time # NoTime
    /\ a.earliest_test_created_time # NoTime
    /\ a.review_toggle_time < a.earliest_test_created_time

\* C4 amended: tests_authored off, zero test cases and an empty history give
\* ("Compliant", False) provided the current state is not 'passed qa' and the
\* review toggle was not switched on before the earliest test was created.
C4_CompliantWhenNothingToCheck ==
    (pc = "done" /\ ~args.tests_authored /\ args.tc_count = 0
                 /\ args.state_history = <<>>
                 /\ NormState(args.state) # "passed qa"
                 /\ ~C4_ReviewBeforeCreation(args))
        => ret = [status |-> <<"Compliant">>, severe |-> FALSE]

C4_Witness ==
    /\ pc = "done" /\ ~args.tests_authored /\ args.tc_count = 0
    /\ args.state_history = <<>>
    /\ args.state = "qa in progress"
    /\ args.tests_reviewed
    /\ args.test_states # <<>>
    /\ args.review_toggle_time = 2
    /\ ret = [status |-> <<"Compliant">>, severe |-> FALSE]

\* ------------------------------------------------------------------------
\* Numbers: scores in hundredths, exact rationals n/d, Python's round(x, 2)
\* ------------------------------------------------------------------------

NoneNum == -999999

\* 100.00 in hundredths
Hundred == 10000

\* a whole number of points as hundredths
Pts(n) == n * 100

\* round(n/d, 2) for a value n/d already in hundredths, d > 0: nearest
\* integer, ties to even
Round2(n, d) ==
    LET q == n \div d
        r == n - q * d
    IN  IF 2 * r < d THEN q
        ELSE IF 2 * r > d THEN q + 1
        ELSE IF q % 2 = 0 THEN q ELSE q + 1

\* x or 0
Or0(x) == IF x = NoneNum THEN 0 ELSE x

\* max(0, min(x, 100))
Clamp100(x) == Max(0, Min(x, Hundred))

\* ------------------------------------------------------------------------
\* performance_engine.calculate_qii (src/performance_engine.py)
\* ------------------------------------------------------------------------

\* lines 119-128: cap_applied, None when coverage >= 60
CoverageCap(coverage) ==
    IF coverage < Pts(30) THEN Pts(45)
    ELSE IF coverage < Pts(40) THEN Pts(55)
    ELSE IF coverage < Pts(50) THEN Pts(65)
    ELSE IF coverage < Pts(60) THEN Pts(75)
    ELSE NoneNum

\* lines 140-153 with the score rule tried before the critical-gap rule
QiiRiskScoreBeforeGap(coverage, critical_gap, final_score) ==
    IF coverage < Pts(40) THEN "Critical"
    ELSE IF coverage < Pts(60) THEN "High"
    ELSE IF final_score < Pts(60) THEN "Medium"
    ELSE IF critical_gap THEN "High"
    ELSE "Low"

\* lines 140-153
QiiRisk(coverage, critical_gap, final_score) ==
    IF coverage < Pts(40) THEN "Critical"
    ELSE IF coverage < Pts(60) THEN "High"
    ELSE IF critical_gap THEN "High"
    ELSE IF final_score < Pts(60) THEN "Medium"
    ELSE "Low"

\* lines 130-134 with the cap applied to the base score, before the
\* complexity multiplier
QiiFinalScoreCapFirst(n, d, cx, cap) ==
    LET cn == IF cap # NoneNum /\ cap * d < n THEN cap * d ELSE n
        an == cn * cx
        ad == d * 10
    IN  IF an > Hundred * ad THEN Hundred ELSE Round2(an, ad)

\* lines 112-134: base score n/d (hundredths), complexity cx (tenths):
\* adjusted = base * complexity, min with the cap, min with 100, round
QiiFinalScore(n, d, cx, cap) ==
    LET an == n * cx
        ad == d * 10
        capped == cap # NoneNum /\ cap * ad < an
        cn == IF capped THEN cap * ad ELSE an
    IN  IF cn > Hundred * ad THEN Hundred ELSE Round2(cn, ad)

\* the whole function; a.complexity_score is in tenths
calculate_qii(a) ==
    LET coverage   == Clamp100(Or0(a.coverage))
        scenario   == Clamp100(Or0(a.scenario_index))
        depth      == Clamp100(Or0(a.test_depth))
        governance == Clamp100(Or0(a.governance_score))
        ac_quality == Clamp100(Or0(a.ac_quality_score))
        cx         == IF a.complexity_score \in {NoneNum, 0} THEN 10
                      ELSE a.complexity_score
        \* weighted_sum * 100
        ws == 25 * coverage + 20 * scenario + 15 * depth
              + 15 * governance + 10 * ac_quality
        \* base_score = weighted_sum / total_weight, then * 0.85 on a gap
        \* (as the fraction ws/85, or ws/100 after the penalty)
        bn == ws
        bd == IF a.critical_gap THEN 100 ELSE 85
        cap == CoverageCap(coverage)
        final == QiiFinalScore(bn, bd, cx, cap)
    IN  IF coverage = 0
        THEN [qii |-> 0, base_score |-> 0, risk_level |-> "Critical",
              breakdown |-> ("Reason" :> "Zero validation coverage")]
        ELSE [qii |-> final,
              base_score |-> Round2(bn, bd),
              risk_level |-> QiiRisk(coverage, a.critical_gap, final),
              breakdown |->
                  ("Coverage Contribution" :> Round2(25 * coverage, 100))
               @@ ("Scenario Contribution" :> Round2(20 * scenario, 100))
               @@ ("Test Depth Contribution" :> Round2(15 * depth, 100))
               @@ ("Governance Contribution" :> Round2(15 * governance, 100))
               @@ ("AC Quality Contribution" :> Round2(10 * ac_quality, 100))
               @@ ("Penalty Applied" :>
                       IF a.critical_gap THEN Round2(ws * 15, 8500) ELSE 0)
               @@ ("Complexity Multiplier" :> cx)
               @@ ("Coverage Cap Applied" :> cap)]

QiiCoverages ==
    {NoneNum, Pts(-5), 0, 1, 2999, Pts(30), Pts(35), 3999, Pts(40), 4999,
     Pts(50), 5999, Pts(60), Pts(100), Pts(150)}

QiiScores == {NoneNum, 0, Pts(50), Pts(100)}

QiiComplexities == {NoneNum, -10, 5, 10, 15, 30}

QiiArgs ==
    [coverage : QiiCoverages,
     scenario_index : QiiScores,
     test_depth : QiiScores,
     governance_score : QiiScores,
     ac_quality_score : QiiScores,
     complexity_score : QiiComplexities,
     critical_gap : BOOLEAN]

InitQii ==
    /\ pc = "call"
    /\ NoStory
    /\ args \in QiiArgs
    /\ ret = NoResult

CalculateQii ==
    /\ pc = "call"
    /\ ret' = calculate_qii(args)
    /\ pc' = "done"
    /\ UNCHANGED <<args, env, loc, row>>

NextQii == CalculateQii

SpecQii == InitQii /\ [][NextQii]_vars

\* the coverage calculate_qii works with: (coverage or 0) clamped to 0..100
C5_Coverage == Clamp100(Or0(args.coverage))

C5_ScoreWithinCap ==
    /\ C5_Coverage < Pts(30) => ret.qii <= Pts(45)
    /\ C5_Coverage < Pts(40) => ret.qii <= Pts(55)
    /\ C5_Coverage < Pts(50) => ret.qii <= Pts(65)
    /\ C5_Coverage < Pts(60) => ret.qii <= Pts(75)

C5_ExpectedCap ==
    CASE C5_Coverage < Pts(30) -> Pts(45)
      [] C5_Coverage \in Pts(30)..(Pts(40) - 1) -> Pts(55)
      [] C5_Coverage \in Pts(40)..(Pts(50) - 1) -> Pts(65)
      [] C5_Coverage \in Pts(50)..(Pts(60) - 1) -> Pts(75)
      [] OTHER -> NoneNum

C5_CapReported ==
    /\ "Coverage Cap Applied" \in DOMAIN ret.breakdown
    /\ ret.breakdown["Coverage Cap Applied"] = C5_ExpectedCap

\* C5 as stated: in every bracket the score is within the cap and the
\* reported 'Coverage Cap Applied' is the cap of the bracket.
C5_Original ==
    pc = "done" => (C5_ScoreWithinCap /\ C5_CapReported)

\* C5 amended: the score is within the cap of the coverage bracket for every
\* input; the reported 'Coverage Cap Applied' is the cap of the bracket (None
\* from 60 up) whenever coverage is above 0, and at coverage 0 (also None or
\* negative) the result is the short-circuit one (qii 0, Critical) whose
\* breakdown carries no 'Coverage Cap Applied' entry.
C5_CapBoundsScore ==
    pc = "done" =>
        /\ C5_ScoreWithinCap
        /\ C5_Coverage > 0 => C5_CapReported
        /\ C5_Coverage = 0 =>
              /\ ret.qii = 0 /\ ret.risk_level = "Critical"
              /\ "Coverage Cap Applied" \notin DOMAIN ret.breakdown

\* coverage 35 with every other component at 100 and a multiplier of 3:
\* the cap of 55 is what holds the score down
C5_Witness ==
    /\ pc = "done"
    /\ args.coverage = Pts(35)
    /\ args.scenario_index = Pts(100) /\ args.test_depth = Pts(100)
    /\ args.governance_score = Pts(100) /\ args.ac_quality_score = Pts(100)
    /\ args.complexity_score = 30
    /\ ret.qii = Pts(55)
    /\ ret.breakdown["Coverage Cap Applied"] = Pts(55)

\* ------------------------------------------------------------------------
\* governance_pillar_model (src/app/engines/governance_pillar_model.py)
\*
\* A pillar set is a record of four scores, NoneNum for a missing or None
\* entry.  An insight is [kind, confidence, requirement_ambiguity, missing]:
\* kind "none" (None), "empty" ({}), "other" (a truthy non-dict) or "dict";
\* confidence in hundredths (0.60 is 60), NoneNum when absent or None;
\* missing = [type, len] for missing_validation_dimensions: a "list" of len
\* entries, "absent", "none" (None) or "str" (a non-list of length len).
\* ------------------------------------------------------------------------

AI_CONFIDENCE_THRESHOLD == 60

CLARITY_WEIGHT == 25

VALIDATION_WEIGHT == 30

TRACEABILITY_WEIGHT == 25

DOCUMENTATION_WEIGHT == 20

\* clamp(value) == max(0, min(value or 0, 100))
clamp(value) == Max(0, Min(Or0(value), Hundred))

\* lines 33-51
recompute_governance_from_pillars(pillars) ==
    LET clarity       == clamp(pillars.clarity)
        validation    == clamp(pillars.validation)
        traceability  == clamp(pillars.traceability)
        documentation == clamp(pillars.documentation)
    IN  clamp(Round2(clarity * CLARITY_WEIGHT
                     + validation * VALIDATION_WEIGHT
                     + traceability * TRACEABILITY_WEIGHT
                     + documentation * DOCUMENTATION_WEIGHT, 100))

\* lines 78-83
NormalizedPillars(base_pillars) ==
    [clarity       |-> clamp(base_pillars.clarity),
     validation    |-> clamp(base_pillars.validation),
     traceability  |-> clamp(base_pillars.traceability),
     documentation |-> clamp(base_pillars.documentation)]

\* lines 107-127 with the documentation signal written as an assignment of
\* 70 whatever the documentation pillar was
CappedPillarsDocAlways70(adjusted, ai_insight) ==
    LET amb == ai_insight.requirement_ambiguity
        m   == ai_insight.missing
    IN  [clarity |-> IF amb THEN Min(adjusted.clarity, Pts(60))
                     ELSE adjusted.clarity,
         validation |->
             IF m.type = "list" /\ m.len >= 2
             THEN Min(adjusted.validation, Pts(65))
             ELSE IF m.type = "list" /\ m.len = 1
             THEN Min(adjusted.validation, Pts(75))
             ELSE adjusted.validation,
         traceability |-> adjusted.traceability,
         documentation |-> IF amb THEN Pts(70) ELSE adjusted.documentation]

\* lines 107-127: the caps of an insight that passed the confidence gate
CappedPillars(adjusted, ai_insight) ==
    LET amb == ai_insight.requirement_ambiguity
        m   == ai_insight.missing
    IN  [clarity |-> IF amb THEN Min(adjusted.clarity, Pts(60))
                     ELSE adjusted.clarity,
         validation |->
             IF m.type = "list" /\ m.len >= 2
             THEN Min(adjusted.validation, Pts(65))
             ELSE IF m.type = "list" /\ m.len = 1
             THEN Min(adjusted.validation, Pts(75))
             ELSE adjusted.validation,
         traceability |-> adjusted.traceability,
         documentation |->
             IF amb /\ adjusted.documentation = Pts(100) THEN Pts(70)
             ELSE adjusted.documentation]

\* an exception that leaves the function
Raised(exc) == [raised |-> exc]

\* a confidence that is not a number (a non-empty string such as "high"),
\* which Python refuses to compare with the threshold
NonNumeric == -888888

\* lines 93-96 with <= in place of < in the gate
ConfidenceGateStrict(ai_insight) ==
    ~(Or0(ai_insight.confidence) <= AI_CONFIDENCE_THRESHOLD)

\* lines 93-96: confidence = ai_insight.get("confidence", 0) or 0, and the
\* gate confidence < AI_CONFIDENCE_THRESHOLD not taken
ConfidenceGatePasses(ai_insight) ==
    ~(Or0(ai_insight.confidence) < AI_CONFIDENCE_THRESHOLD)

\* lines 58-139 (base_pillars a dict); the result, or the exception of the
\* comparison at line 96
apply_ai_override(base_pillars, ai_insight) ==
    LET adjusted == NormalizedPillars(base_pillars)
    IN  IF ai_insight.kind = "dict" /\ ai_insight.confidence = NonNumeric
        THEN Raised("TypeError")
        ELSE IF ai_insight.kind # "dict" \/ ~ConfidenceGatePasses(ai_insight)
        THEN [adjusted_pillars |-> adjusted,
              adjusted_governance |-> recompute_governance_from_pillars(adjusted),
              ai_applied |-> FALSE]
        ELSE LET capped == CappedPillars(adjusted, ai_insight)
             IN  [adjusted_pillars |-> capped,
                  adjusted_governance |-> recompute_governance_from_pillars(capped),
                  ai_applied |-> TRUE]

\* ------------------------------------------------------------------------
\* ai_adjustment_engine.apply_ai_adjustments (src/AI/ai_adjustment_engine.py)
\* ------------------------------------------------------------------------

\* lines 19-53; the result is (governance_score, coverage) or an exception
apply_ai_adjustments(governance_score, coverage, ai_insight) ==
    LET m == ai_insight.missing
        g1 == IF ai_insight.requirement_ambiguity
              THEN Min(governance_score, Pts(70)) ELSE governance_score
        c1 == IF m.type # "absent" /\ m.len >= 2 THEN Min(coverage, Pts(75))
              ELSE IF m.type # "absent" /\ m.len = 1 THEN Min(coverage, Pts(85))
              ELSE coverage
    IN  IF ai_insight.kind \in {"none", "empty"}
        THEN [raised |-> "no", governance_score |-> governance_score,
              coverage |-> coverage]
        ELSE IF ai_insight.kind = "other"
        THEN Raised("AttributeError")
        ELSE IF ai_insight.confidence \in {NoneNum, NonNumeric}
        THEN Raised("TypeError")
        ELSE IF ai_insight.confidence < AI_CONFIDENCE_THRESHOLD
        THEN [raised |-> "no", governance_score |-> governance_score,
              coverage |-> coverage]
        ELSE IF m.type = "none"
        THEN Raised("TypeError")
        ELSE [raised |-> "no",
              governance_score |-> Max(Min(g1, Hundred), 0),
              coverage |-> Max(Min(c1, Hundred), 0)]

\* ------------------------------------------------------------------------
\* Specification of the two advisory gates on the same pillars and insight
\* ------------------------------------------------------------------------

PillarValues == {0, Pts(59), Pts(65), Pts(80), Pts(100)}

PillarSets ==
    [clarity : PillarValues, validation : PillarValues,
     traceability : {0, Pts(40), Pts(100)}, documentation : PillarValues]

MissingDims ==
    {[type |-> "list", len |-> n] : n \in 0..3}
        \cup {[type |-> "absent", len |-> 0], [type |-> "none", len |-> 0],
              [type |-> "str", len |-> 1]}

NoInsights ==
    {[kind |-> k, confidence |-> NoneNum, requirement_ambiguity |-> FALSE,
      missing |-> [type |-> "absent", len |-> 0]] : k \in {"none", "empty", "other"}}

DictInsights ==
    [kind : {"dict"}, confidence : {NoneNum, NonNumeric, 0, 59, 60, 95},
     requirement_ambiguity : BOOLEAN, missing : MissingDims]

Insights == NoInsights \cup DictInsights

GateArgs ==
    [base_pillars : PillarSets, ai_insight : Insights, coverage : {Pts(70), Pts(90)}]

InitGate ==
    /\ pc = "call"
    /\ NoStory
    /\ args \in GateArgs
    /\ ret = [override |-> NoResult, adjustments |-> NoResult]

\* the pillar form
ApplyAiOverride ==
    /\ pc = "call"
    /\ ret.override = NoResult
    /\ ret' = [ret EXCEPT !.override =
                  apply_ai_override(args.base_pillars, args.ai_insight)]
    /\ UNCHANGED <<pc, args, env, loc, row>>

\* the scalar form, on the weighted governance score of the same pillars
ApplyAiAdjustments ==
    /\ pc = "call"
    /\ ret.adjustments = NoResult
    /\ ret' = [ret EXCEPT !.adjustments =
                  apply_ai_adjustments(
                      recompute_governance_from_pillars(args.base_pillars),
                      args.coverage, args.ai_insight)]
    /\ UNCHANGED <<pc, args, env, loc, row>>

NextGate == ApplyAiOverride \/ ApplyAiAdjustments

SpecGate == InitGate /\ [][NextGate]_vars

C7_BelowThreshold ==
    \/ args.ai_insight.kind # "dict"
    \/ Or0(args.ai_insight.confidence) < 60

\* C7: apply_ai_override never raises a pillar: each adjusted pillar is <= the
\* input pillar (inputs in [0,100]), and with an absent insight or a
\* confidence below 0.60 the adjusted pillars equal the input exactly and
\* ai_applied is False.
C7_OverrideNeverRaises ==
    (ret.override # NoResult /\ "raised" \notin DOMAIN ret.override) =>
        LET P == args.base_pillars
            A == ret.override.adjusted_pillars
        IN  /\ A.clarity <= P.clarity
            /\ A.validation <= P.validation
            /\ A.traceability <= P.traceability
            /\ A.documentation <= P.documentation
            /\ C7_BelowThreshold => (A = P /\ ~ret.override.ai_applied)

\* an insight over the gate lowers clarity and documentation, and one just
\* under the threshold was passed through
C7_Witness ==
    /\ ret.override # NoResult
    /\ args.base_pillars.documentation = Pts(100)
    /\ args.ai_insight.kind = "dict"
    /\ args.ai_insight.confidence = 60
    /\ ret.override.ai_applied
    /\ ret.override.adjusted_pillars.documentation = Pts(70)
    /\ ret.override.adjusted_pillars.clarity < args.base_pillars.clarity

\* C10: the pillar form and the scalar form of the advisory gate give the same
\* governance score for the same pillars and insight (stated for the insights
\* on which the scalar form returns at all).
C10_FormsAgree ==
    (/\ ret.override # NoResult /\ ret.adjustments # NoResult
     /\ ret.adjustments.raised = "no")
        => ret.override.adjusted_governance = ret.adjustments.governance_score

\* ------------------------------------------------------------------------
\* governance_engine (src/app/engines/governance_engine.py)
\*
\* A description is known by what the code measures of it: the length of
\* description.strip(), whether it contains "<img", and the length of the
\* text left once the tags are stripped.  The weights are hundredths (0.25
\* is 25) over a total (100, or 75 once traceability is excluded);
\* weights_used is in ten-thousandths, as round(w, 4) reports it.
\* ------------------------------------------------------------------------

MaxAcCount == 4

MaxTcCount == 3

\* lines 31-66
calculate_documentation_quality(description) ==
    IF description.stripped_len = 0 THEN 0
    ELSE IF description.has_img /\ description.stripped_len < 200 THEN Pts(30)
    ELSE IF description.clean_len = 0 THEN 0
    ELSE IF description.clean_len < 40 THEN Pts(40)
    ELSE IF description.clean_len < 120 THEN Pts(70)
    ELSE Pts(100)

\* lines 73-93: ratio = tc_count / ac_count compared without dividing
calculate_traceability(ac_count, tc_count) ==
    IF ac_count <= 0 \/ tc_count <= 0 THEN 0
    ELSE IF tc_count >= ac_count THEN Pts(100)
    ELSE IF 4 * tc_count >= 3 * ac_count THEN Pts(80)
    ELSE IF 2 * tc_count >= ac_count THEN Pts(60)
    ELSE IF tc_count > 0 THEN Pts(40)
    ELSE 0

\* lines 100-120
calculate_clarity_score(ac_count, ac_quality_score) ==
    IF ac_count = 0 THEN 0
    ELSE LET clarity == clamp(ac_quality_score)
         IN  IF ac_count = 1 /\ clarity < Pts(80)
             THEN Min(clarity, Pts(65)) ELSE clarity

\* lines 165-171
ValidationPillar(structural_coverage, validation_coverage) ==
    LET v == clamp(validation_coverage)
    IN  IF v > Pts(80) /\ clamp(structural_coverage) < Pts(50)
        THEN clamp(Min(v, Pts(70))) ELSE clamp(v)

\* lines 193-234 without the tc_count == 0 branch: the four-pillar weights in
\* every case
GovernanceWeightsNoRedistribution(tc_count) ==
    [clarity |-> CLARITY_WEIGHT, validation |-> VALIDATION_WEIGHT,
     traceability |-> TRACEABILITY_WEIGHT,
     documentation |-> DOCUMENTATION_WEIGHT, total |-> 100]

\* lines 193-234: the weights of the sum, each as weight/total
GovernanceWeights(tc_count) ==
    IF tc_count = 0
    THEN [clarity |-> CLARITY_WEIGHT, validation |-> VALIDATION_WEIGHT,
          traceability |-> 0, documentation |-> DOCUMENTATION_WEIGHT,
          total |-> CLARITY_WEIGHT + VALIDATION_WEIGHT + DOCUMENTATION_WEIGHT]
    ELSE [clarity |-> CLARITY_WEIGHT, validation |-> VALIDATION_WEIGHT,
          traceability |-> TRACEABILITY_WEIGHT,
          documentation |-> DOCUMENTATION_WEIGHT, total |-> 100]

\* round(w, 4) of the weight n/total, in ten-thousandths
Round4(n, total) == Round2(n * 10000, total)

\* lines 127-247; ac_count is len(ac_list)
calculate_governance_score(ac_count, ac_quality_score, tc_count, structural_coverage, validation_coverage, description) ==
    LET clarity_score == calculate_clarity_score(ac_count, ac_quality_score)
        validation_score ==
            ValidationPillar(structural_coverage, validation_coverage)
        traceability_score == clamp(calculate_traceability(ac_count, tc_count))
        documentation_score ==
            clamp(calculate_documentation_quality(description))
        w == GovernanceWeights(tc_count)
        sum == clarity_score * w.clarity
               + validation_score * w.validation
               + traceability_score * w.traceability
               + documentation_score * w.documentation
    IN  [governance_score |-> clamp(Round2(sum, w.total)),
         pillars |-> [clarity |-> clarity_score,
                      validation |-> validation_score,
                      traceability |-> traceability_score,
                      documentation |-> documentation_score],
         weights_used |->
             [clarity |-> Round4(w.clarity, w.total),
              validation |-> Round4(w.validation, w.total),
              traceability |-> Round4(w.traceability, w.total),
              documentation |-> Round4(w.documentation, w.total)]]

\* ------------------------------------------------------------------------
\* Specification: the governance calculator, then the advisory gate on the
\* pillars it returned
\* ------------------------------------------------------------------------

Descriptions ==
    {[stripped_len |-> 0,   has_img |-> FALSE, clean_len |-> 0],
     [stripped_len |-> 60,  has_img |-> TRUE,  clean_len |-> 0],
     [stripped_len |-> 260, has_img |-> TRUE,  clean_len |-> 0],
     [stripped_len |-> 260, has_img |-> TRUE,  clean_len |-> 130],
     [stripped_len |-> 30,  has_img |-> FALSE, clean_len |-> 30],
     [stripped_len |-> 90,  has_img |-> FALSE, clean_len |-> 80],
     [stripped_len |-> 150, has_img |-> FALSE, clean_len |-> 120]}

GovernanceInsights ==
    {i \in Insights :
        \/ i.kind = "none"
        \/ /\ i.kind = "dict" /\ i.confidence \in {59, 95}
           /\ i.requirement_ambiguity /\ i.missing = [type |-> "list", len |-> 1]}

GovernanceArgs ==
    [ac_count : 0..MaxAcCount,
     ac_quality_score : {0, Pts(70), Pts(85), Pts(100)},
     tc_count : 0..MaxTcCount,
     structural_coverage : {0, 4999, Pts(90)},
     validation_coverage : {0, Pts(80), 8001, Pts(100)},
     description : Descriptions,
     ai_insight : GovernanceInsights]

InitGovernance ==
    /\ pc = "call"
    /\ NoStory
    /\ args \in GovernanceArgs
    /\ ret = [gov |-> NoResult, gate |-> NoResult]

CalculateGovernanceScore ==
    /\ pc = "call"
    /\ ret' = [ret EXCEPT !.gov =
                  calculate_governance_score(
                      args.ac_count, args.ac_quality_score, args.tc_count,
                      args.structural_coverage, args.validation_coverage,
                      args.description)]
    /\ pc' = "scored"
    /\ UNCHANGED <<args, env, loc, row>>

\* the advisory gate on gov_data["pillars"]
OverrideGovernancePillars ==
    /\ pc = "scored"
    /\ ret' = [ret EXCEPT !.gate =
                  apply_ai_override(ret.gov.pillars, args.ai_insight)]
    /\ pc' = "done"
    /\ UNCHANGED <<args, env, loc, row>>

NextGovernance == CalculateGovernanceScore \/ OverrideGovernancePillars

SpecGovernance == InitGovernance /\ [][NextGovernance]_vars

C8_Abs(x) == IF x < 0 THEN -x ELSE x

\* w (ten-thousandths) is base/0.75 to the four places weights_used keeps
C8_Redistributed(w, base) == 2 * C8_Abs(75 * w - 10000 * base) <= 75

\* C8: with tc_count = 0 the governance score is the weighted sum of clarity,
\* validation and documentation only; weights_used has traceability 0, the
\* three other weights are 0.25, 0.30 and 0.20 each divided by 0.75 (as
\* reported, to four places) and sum to exactly 1.0; the traceability pillar
\* is 0.
C8_ZeroTestsRedistributes ==
    (pc # "call" /\ args.tc_count = 0) =>
        LET g == ret.gov
            w == g.weights_used
            p == g.pillars
        IN  /\ w.traceability = 0
            /\ w.clarity + w.validation + w.documentation = 10000
            /\ C8_Redistributed(w.clarity, 25)
            /\ C8_Redistributed(w.validation, 30)
            /\ C8_Redistributed(w.documentation, 20)
            /\ p.traceability = 0
            /\ g.governance_score =
                  Round2(25 * p.clarity + 30 * p.validation
                         + 20 * p.documentation, 75)

\* no test cases, three full pillars: the score is 100, not the 75 the
\* four-pillar weights would give
C8_Witness ==
    /\ pc = "scored" /\ args.tc_count = 0 /\ args.ac_count = 2
    /\ ret.gov.pillars = [clarity |-> Pts(100), validation |-> Pts(100),
                          traceability |-> 0, documentation |-> Pts(100)]
    /\ ret.gov.governance_score = Pts(100)
    /\ ret.gov.weights_used = [clarity |-> 3333, validation |-> 4000,
                               traceability |-> 0, documentation |-> 2667]

\* C9: on the pillars calculate_governance_score returned, a gate that does
\* not apply (insight absent or below the threshold) recomputes the same
\* governance score.
C9_GateRecomputesSameScore ==
    (pc = "done" /\ ~ret.gate.ai_applied) =>
        ret.gate.adjusted_governance = ret.gov.governance_score

\* ------------------------------------------------------------------------
\* Texts
\*
\* A text is the sequence of its raw words (as str.split() gives them, one
\* blank between two words).  A test text also has a number of filler words:
\* words outside every keyword table and every criterion, which only count
\* towards the length of the text.
\* ------------------------------------------------------------------------

\* text.lower() then re.sub(r"[^a-z0-9\s]", " ", text), word by word: the
\* normalised words a raw word turns into
NormWord(w) ==
    CASE w = "Save"       -> <<"save">>
      [] w = "Record"     -> <<"record">>
      [] w = "Out"        -> <<"out">>
      [] w = "scope:"     -> <<"scope">>
      [] w = "Display"    -> <<"display">>
      [] w = "Update"     -> <<"update">>
      [] w = "User"       -> <<"user">>
      [] w = "System"     -> <<"system">>
      [] w = "Reject"     -> <<"reject">>
      [] w = "Click"      -> <<"click">>
      [] w = "GET"        -> <<"get">>
      [] w = "Step"       -> <<"step">>
      [] w = "1."         -> <<"1">>
      [] w = "-"          -> <<>>
      [] w = "displayed." -> <<"displayed">>
      [] w = "TITLE:"     -> <<"title">>
      [] w = "STEPS:"     -> <<"steps">>
      [] w = "EXPECTED:"  -> <<"expected">>
      [] OTHER            -> <<w>>

RECURSIVE normalize_text(_)
normalize_text(text) ==
    IF text = <<>> THEN <<>>
    ELSE NormWord(Head(text)) \o normalize_text(Tail(text))

\* a phrase (a sequence of words) occurs in a text as consecutive whole words
HasPhrase(words, phrase) ==
    \E i \in 1..(Len(words) - Len(phrase) + 1) :
        \A j \in 1..Len(phrase) : words[i + j - 1] = phrase[j]

\* re.search(rf"\b{keyword}\b", text) on a normalised text
word_match(text, keyword) == HasPhrase(text, keyword)

Phrases(S) == {<<w>> : w \in S}

\* ------------------------------------------------------------------------
\* coverage (src/app/engines/coverage.py)
\* ------------------------------------------------------------------------

STOPWORDS ==
    {"the", "a", "an", "to", "of", "for", "in", "on",
     "and", "or", "is", "are", "be", "should", "must",
     "user", "system", "able", "can", "when", "then",
     "with", "by", "as", "at", "it"}

HIGH_SIGNAL_TERMS ==
    {"update", "delete", "insert", "sync",
     "due", "date", "trigger", "assign",
     "record", "complete", "error",
     "validation", "manual", "automatic",
     "offline", "api", "endpoint",
     "migration", "script", "schema",
     "metadata", "patch", "get"}

\* the raw words of the model in which some VAGUE_TERMS entry occurs as a
\* substring of the lower-cased word ("networks" holds "works")
VagueWords ==
    {"properly", "correctly", "appropriately", "works", "working", "handle",
     "efficiently", "successfully", "accurately", "networks"}

VALIDATION_VERBS ==
    {"display", "return", "calculate", "update",
     "delete", "save", "prevent", "allow",
     "restrict", "validate", "trigger",
     "show", "appear", "fetch"}

GENERIC_PATTERNS ==
    {<<"must", "be", "able">>, <<"should", "be", "able">>,
     <<"user", "can">>, <<"the", "system", "can">>}

SCOPE_EXCLUSION_TERMS ==
    {<<"not", "covered">>, <<"out", "of", "scope">>,
     <<"will", "be", "skipped">>, <<"skipped">>,
     <<"planned", "for", "next">>, <<"future", "ticket">>,
     <<"future", "enhancement">>, <<"not", "included">>}

TECHNICAL_TERMS ==
    Phrases({"migration", "script", "schema", "seed", "database", "backend",
             "job"})
        \cup {<<"stored", "procedure">>, <<"data", "setup">>}

\* lines 139-151
classify_ac_intent(ac_text) ==
    LET lower_text == normalize_text(ac_text)
    IN  IF \E term \in SCOPE_EXCLUSION_TERMS : HasPhrase(lower_text, term)
        THEN "Scope Exclusion"
        ELSE IF \E term \in TECHNICAL_TERMS : word_match(lower_text, term)
        THEN "Technical"
        ELSE "Functional"

\* lines 158-160
tokenize(text) == SelectSeq(normalize_text(text), LAMBDA w : w \notin STOPWORDS)

\* a fraction n/d
Frac(n, d) == [n |-> n, d |-> d]

FracAdd(x, y) == Frac(x.n * y.d + y.n * x.d, x.d * y.d)

\* round(score * 100, 2) in hundredths
Percent(score) == Round2(score.n * 10000, score.d)

RECURSIVE SumWeights(_, _)
SumWeights(ac_words, keep) ==
    IF ac_words = <<>> THEN 0
    ELSE (IF Head(ac_words) \in keep
          THEN (IF Head(ac_words) \in HIGH_SIGNAL_TERMS THEN 2 ELSE 1)
          ELSE 0)
         + SumWeights(Tail(ac_words), keep)

\* lines 167-186: matched_weight / total_weight
weighted_keyword_overlap(ac, test_text) ==
    LET ac_words == tokenize(ac)
        test_words == Range(tokenize(test_text))
        total_weight == SumWeights(ac_words, Range(ac_words))
        matched_weight == SumWeights(ac_words, test_words)
    IN  IF ac_words = <<>> THEN Frac(0, 1)
        ELSE Frac(matched_weight, total_weight)

B2N(b) == IF b THEN 1 ELSE 0

\* lines 193-207
behavioral_validation_score(test_text) ==
    LET text == normalize_text(test_text)
        has(w) == word_match(text, <<w>>)
    IN  Frac(B2N(has("get")) + B2N(has("patch")) + B2N(has("update"))
             + B2N(has("reload") \/ has("persistence"))
             + B2N(has("unauthorized") \/ has("forbidden"))
             + B2N(has("metadata") \/ has("column"))
             + B2N(has("validate") \/ has("required")), 7)

\* lines 214-223
classify_score(percent) ==
    IF percent >= Pts(80) THEN "Strong"
    ELSE IF percent >= Pts(50) THEN "Moderate"
    ELSE IF percent > 0 THEN "Weak"
    ELSE "Missing"

\* lines 242-288: the result entry of criterion i
AcCoverageEntry(i, ac, test_text) ==
    LET ac_type == classify_ac_intent(ac)
        score == IF ac_type = "Technical"
                 THEN behavioral_validation_score(test_text)
                 ELSE weighted_keyword_overlap(ac, test_text)
    IN  IF ac_type = "Scope Exclusion"
        THEN [ac_number |-> i, score |-> NoneNum, category |-> "Excluded",
              type |-> ac_type, raw |-> Frac(0, 1)]
        ELSE [ac_number |-> i, score |-> Percent(score),
              category |-> classify_score(Percent(score)),
              type |-> ac_type, raw |-> score]

\* lines 242-288 with functional_count incremented before the Scope-Exclusion
\* test, so that an excluded criterion stays in the denominator
RECURSIVE CoverageLoopCountsExcluded(_, _, _)
CoverageLoopCountsExcluded(ac_list, test_text, i) ==
    IF i > Len(ac_list)
    THEN [total_score |-> Frac(0, 1), functional_count |-> 0, results |-> <<>>]
    ELSE LET e == AcCoverageEntry(i, ac_list[i], test_text)
             rest == CoverageLoopCountsExcluded(ac_list, test_text, i + 1)
         IN  [total_score |-> FracAdd(e.raw, rest.total_score),
              functional_count |-> 1 + rest.functional_count,
              results |-> <<e>> \o rest.results]

\* lines 242-288: the loop from criterion i on; total_score (a fraction),
\* functional_count and the result entries in order
RECURSIVE CoverageLoop(_, _, _)
CoverageLoop(ac_list, test_text, i) ==
    IF i > Len(ac_list)
    THEN [total_score |-> Frac(0, 1), functional_count |-> 0, results |-> <<>>]
    ELSE LET e == AcCoverageEntry(i, ac_list[i], test_text)
             rest == CoverageLoop(ac_list, test_text, i + 1)
         IN  IF e.category = "Excluded"
             THEN [rest EXCEPT !.results = <<e>> \o rest.results]
             ELSE [total_score |-> FracAdd(e.raw, rest.total_score),
                   functional_count |-> 1 + rest.functional_count,
                   results |-> <<e>> \o rest.results]

\* lines 230-298: (overall_coverage, results)
evaluate_ac_coverage(ac_list, test_text) ==
    LET t == CoverageLoop(ac_list, test_text, 1)
    IN  IF ac_list = <<>> THEN [overall |-> 0, results |-> <<>>]
        ELSE [overall |-> IF t.functional_count = 0 THEN 0
                          ELSE Round2(t.total_score.n * 10000,
                                      t.total_score.d * t.functional_count),
              results |-> t.results]

\* ac.lower().count(" and "): non-overlapping, from raw word i on
RECURSIVE CountAnd(_, _)
CountAnd(ac, i) ==
    IF i >= Len(ac) THEN 0
    ELSE IF i > 1 /\ ac[i] = "and" THEN 1 + CountAnd(ac, i + 2)
    ELSE CountAnd(ac, i + 1)

\* lines 328-362: the quality score of one criterion that is not excluded
AcQualityScore(ac) ==
    LET lower_ac == normalize_text(ac)
        short == Len(tokenize(ac)) < 5
        vague == \/ \E i \in 1..Len(ac) : ac[i] \in VagueWords
                 \/ HasPhrase(ac, <<"as", "expected">>)
        compound == CountAnd(ac, 1) >= 2
        noverb == ~\E v \in VALIDATION_VERBS : word_match(lower_ac, <<v>>)
        generic == \E pattern \in GENERIC_PATTERNS : HasPhrase(lower_ac, pattern)
    IN  Max(100 - 20 * B2N(short) - 15 * B2N(vague) - 15 * B2N(compound)
                - 10 * B2N(noverb) - 15 * B2N(generic), 0)

RECURSIVE SumQuality(_)
SumQuality(ac_list) ==
    IF ac_list = <<>> THEN 0
    ELSE (IF classify_ac_intent(Head(ac_list)) = "Scope Exclusion" THEN 100
          ELSE AcQualityScore(Head(ac_list)))
         + SumQuality(Tail(ac_list))

\* lines 305-374: overall_quality
evaluate_ac_quality(ac_list) ==
    IF ac_list = <<>> THEN 0
    ELSE Round2(SumQuality(ac_list) * 100, Len(ac_list))

\* ------------------------------------------------------------------------
\* scenario_gap_engine (src/app/engines/scenario_gap_engine.py)
\* ------------------------------------------------------------------------

RuleNames ==
    <<"negative_validation", "boundary_validation",
      "status_code_validation", "ui_rendering_validation">>

VALIDATION_RULES ==
    [negative_validation |->
        [ac_keywords |-> {<<"must", "not">>, <<"should", "not">>,
                          <<"invalid">>, <<"error">>, <<"required">>},
         test_keywords |-> Phrases({"invalid", "empty", "blank", "null",
                                    "error", "reject", "fail"})],
     boundary_validation |->
        [ac_keywords |-> Phrases({"minimum", "maximum", "limit", "range",
                                  "length"}),
         test_keywords |-> Phrases({"min", "max", "boundary", "limit",
                                    "range"})],
     status_code_validation |->
        [ac_keywords |-> Phrases({"status", "response", "http", "payload"}),
         test_keywords |-> Phrases({"200", "400", "401", "403", "404", "500",
                                    "status"})
                               \cup {<<"response", "code">>}],
     ui_rendering_validation |->
        [ac_keywords |-> Phrases({"display", "visible", "show", "render"}),
         test_keywords |-> Phrases({"visible", "displayed", "rendered"})]]

\* lines 41-53
contains_keywords(text, keywords) ==
    LET normalized == normalize_text(text)
    IN  \E keyword \in keywords : HasPhrase(normalized, keyword)

\* lines 97-103
IsCovered(rule_name, test_texts) ==
    \E k \in 1..Len(test_texts) :
        contains_keywords(test_texts[k], VALIDATION_RULES[rule_name].test_keywords)

\* lines 90-111: the loop over the rule table from rule r on
RECURSIVE RuleLoop(_, _, _)
RuleLoop(ac_text, test_texts, r) ==
    IF r > Len(RuleNames)
    THEN [required |-> <<>>, covered |-> <<>>, missing |-> <<>>]
    ELSE LET rule_name == RuleNames[r]
             rest == RuleLoop(ac_text, test_texts, r + 1)
         IN  IF ~contains_keywords(ac_text, VALIDATION_RULES[rule_name].ac_keywords)
             THEN rest
             ELSE IF IsCovered(rule_name, test_texts)
             THEN [rest EXCEPT !.required = <<rule_name>> \o @,
                               !.covered = <<rule_name>> \o @]
             ELSE [rest EXCEPT !.required = <<rule_name>> \o @,
                               !.missing = <<rule_name>> \o @]

\* lines 81-117
analyze_ac_validations(ac_text, test_texts) == RuleLoop(ac_text, test_texts, 1)

\* lines 133-150, from criterion index on: required and covered counts and the
\* missing details in order
RECURSIVE GapLoop(_, _, _)
GapLoop(ac_list, test_texts, index) ==
    IF index > Len(ac_list)
    THEN [required |-> 0, covered |-> 0, missing |-> <<>>]
    ELSE LET ac_result == analyze_ac_validations(ac_list[index], test_texts)
             rest == GapLoop(ac_list, test_texts, index + 1)
         IN  [required |-> Len(ac_result.required) + rest.required,
              covered |-> Len(ac_result.covered) + rest.covered,
              missing |-> [k \in 1..Len(ac_result.missing) |->
                              [ac_number |-> index,
                               validation_type |-> ac_result.missing[k]]]
                          \o rest.missing]

\* lines 124-165
detect_contextual_gaps(ac_list, test_texts) ==
    LET t == GapLoop(ac_list, test_texts, 1)
    IN  [scenario_coverage |->
             IF t.required > 0 THEN Round2(t.covered * 10000, t.required)
             ELSE Pts(100),
         total_required |-> t.required,
         total_covered |-> t.covered,
         missing_details |-> t.missing,
         critical_gap |-> Len(t.missing) > 0]

\* ------------------------------------------------------------------------
\* test_depth_engine (src/app/engines/test_depth_engine.py)
\* ------------------------------------------------------------------------

DepthCategories ==
    {{"invalid", "error", "fail", "exception", "incorrect"},
     {"maximum", "minimum", "boundary", "limit", "range"},
     {"empty", "null", "blank"},
     {"required", "mandatory", "validation", "validate"},
     {"api", "endpoint", "service", "database", "backend"},
     {"save", "update", "delete", "insert", "persist"}}

\* re.findall(r"\bstep\b|\b\d+\.", text): the matches inside one raw word
StepMatches(w) == IF w \in {"Step", "step", "1."} THEN 1 ELSE 0

RECURSIVE CountSteps(_)
CountSteps(text) ==
    IF text = <<>> THEN 0 ELSE StepMatches(Head(text)) + CountSteps(Tail(text))

\* lines 62-67
StepBonus(step_count) ==
    IF step_count >= 10 THEN Pts(20)
    ELSE IF step_count >= 6 THEN Pts(12)
    ELSE IF step_count >= 3 THEN Pts(6)
    ELSE 0

\* lines 8-87; text is the raw words and filler the count of further words;
\* an empty text has neither
calculate_test_depth(text, filler) ==
    LET words == Range(normalize_text(text))
        category_hits == Cardinality({c \in DepthCategories : c \cap words # {}})
        score == Min(category_hits * Pts(15), Pts(75)) + StepBonus(CountSteps(text))
        word_count == Len(text) + filler
        scaled == IF word_count < 25 THEN Round2(score * 5, 10)
                  ELSE IF word_count < 40 THEN Round2(score * 7, 10)
                  ELSE IF word_count > 200 THEN score + Pts(10)
                  ELSE score
    IN  IF text = <<>> /\ filler = 0 THEN 0 ELSE Min(scaled, Hundred)

\* ------------------------------------------------------------------------
\* performance_engine.calculate_qa_execution_score
\* (src/app/engines/performance_engine.py)
\* ------------------------------------------------------------------------

\* lines 47-90
calculate_qa_execution_score(coverage, scenario_index, test_depth) ==
    LET c == Clamp100(coverage)
        s == Clamp100(scenario_index)
        d == Clamp100(test_depth)
        execution_score == Clamp100(Round2(60 * c + 25 * s + 15 * d, 100))
    IN  IF c = 0
        THEN [execution_score |-> 0, risk_level |-> "Critical"]
        ELSE [execution_score |-> execution_score,
              risk_level |-> IF c < Pts(40) THEN "Critical"
                             ELSE IF c < Pts(60) THEN "High"
                             ELSE IF execution_score < Pts(60) THEN "Medium"
                             ELSE "Low"]

\* ------------------------------------------------------------------------
\* main.process_story (src/main.py)
\*
\* env is the tracker's content for the story: its fields, the work items
\* its TestedBy relations point to, and the update records of the story.
\* A fetch either returns that content or raises.
\* ------------------------------------------------------------------------

STRUCTURAL_WEIGHT == 70

\* the second weight of the blend of lines 372-376 (0.3), named apart from the
\* governance pillar weight of the same name
COVERAGE_VALIDATION_WEIGHT == 30

\* lines 87-93
build_test_text(test) ==
    <<"TITLE:">> \o test.title \o <<"STEPS:">> \o test.steps
        \o <<"EXPECTED:">> \o test.expected

RECURSIVE JoinTexts(_)
JoinTexts(texts) ==
    IF texts = <<>> THEN <<>> ELSE Head(texts) \o JoinTexts(Tail(texts))

RECURSIVE SumFiller(_)
SumFiller(tests) ==
    IF tests = <<>> THEN 0 ELSE Head(tests).filler + SumFiller(Tail(tests))

\* re.sub(r"^\d+\.\s*", "", line) then re.sub(r"^[-*]\s*", "", line)
StripMarkers(line) ==
    LET l1 == IF line # <<>> /\ Head(line) = "1." THEN Tail(line) ELSE line
    IN  IF l1 # <<>> /\ Head(l1) = "-" THEN Tail(l1) ELSE l1

\* coverage.extract_ac (src/app/engines/coverage.py lines 102-132): the
\* markup is a list of <li> items (html) or of lines; blank ones are dropped,
\* and the leading markers of a line (not of an item) are stripped
extract_ac(markup) ==
    LET kept == SelectSeq(markup.lines, LAMBDA l : l # <<>>)
    IN  IF markup.html THEN kept
        ELSE [i \in 1..Len(kept) |-> StripMarkers(kept[i])]

\* sorted(updates, key=id): the insertion of one update into a sorted list,
\* after the entries whose id is not larger (the sort is stable)
RECURSIVE InsertById(_, _)
InsertById(sorted, u) ==
    IF sorted = <<>> THEN <<u>>
    ELSE IF Head(sorted).id <= u.id THEN <<Head(sorted)>> \o InsertById(Tail(sorted), u)
    ELSE <<u>> \o sorted

\* line 115 left out: the updates in the order the tracker returned them
SortByIdUnsorted(updates) == updates

RECURSIVE SortById(_)
SortById(updates) ==
    IF updates = <<>> THEN <<>>
    ELSE InsertById(SortById(SubSeq(updates, 1, Len(updates) - 1)),
                    updates[Len(updates)])

\* lines 133-136
RECURSIVE RemoveConsecutiveDuplicates(_)
RemoveConsecutiveDuplicates(states) ==
    IF Len(states) <= 1 THEN states
    ELSE LET front == RemoveConsecutiveDuplicates(SubSeq(states, 1, Len(states) - 1))
         IN  IF front[Len(front)] = states[Len(states)] THEN front
             ELSE Append(front, states[Len(states)])

\* lines 104-142; updates is what get_work_item_updates returned, or the
\* fetch failed
extract_state_history(fetch_ok, updates, current_state) ==
    LET sorted == SortById(updates)
        changes == SelectSeq(sorted, LAMBDA u : u.new_state # NoneStr)
        states == [i \in 1..Len(changes) |-> StripLower(changes[i].new_state)]
        current_normalized == StripLower(current_state)
        all == IF states = <<>> \/ states[Len(states)] # current_normalized
               THEN Append(states, current_normalized) ELSE states
    IN  IF fetch_ok THEN RemoveConsecutiveDuplicates(all)
        ELSE <<current_normalized>>

\* lines 270-291: the timestamps after the updates from position i on
RECURSIVE StoryTimestamps(_, _, _)
StoryTimestamps(updates, i, acc) ==
    IF i > Len(updates) THEN acc
    ELSE LET u == updates[i]
             a1 == IF u.revised # NoTime /\ u.reviewed
                   THEN [acc EXCEPT !.review_toggle_time = u.revised] ELSE acc
             a2 == IF /\ u.revised # NoTime /\ u.new_state # NoneStr
                      /\ StripLower(u.new_state) = "passed qa"
                   THEN [a1 EXCEPT !.passed_qa_time = u.revised] ELSE a1
         IN  StoryTimestamps(updates, i + 1, a2)

\* lines 305-316: the earliest System.CreatedDate of the tests
RECURSIVE EarliestCreated(_)
EarliestCreated(tests) ==
    IF tests = <<>> THEN NoTime
    ELSE LET rest == EarliestCreated(Tail(tests))
             c == Head(tests).created
         IN  IF c = NoTime THEN rest
             ELSE IF rest = NoTime \/ c < rest THEN c ELSE rest

\* lines 318-336: some test whose updates could be fetched went through
\* 'needs review'
ReviewLifecycleDetected(tests, failed) ==
    \E k \in 1..Len(tests) :
        /\ k \notin failed
        /\ \E j \in 1..Len(tests[k].updates) :
              StripLower(tests[k].updates[j]) = "needs review"

\* ---- the tracker's content the model draws from ----

\* the Acceptance Criteria field: <li> items (html) or lines of text
AcMarkups ==
    {[html |-> FALSE, lines |-> <<>>],
     [html |-> TRUE,  lines |-> <<<<"1.", "Save", "the", "record">>>>],
     [html |-> FALSE, lines |-> <<<<"1.", "Save", "the", "record">>,
                                  <<>>,
                                  <<"-", "Out", "of", "scope:", "legacy", "import">>>>],
     [html |-> FALSE, lines |-> <<<<"Display", "error", "when", "date", "is", "invalid">>>>],
     [html |-> FALSE, lines |-> <<<<"Display", "error", "when", "date", "is", "invalid">>,
                                  <<"Update", "the", "database", "schema">>>>],
     [html |-> TRUE,  lines |-> <<<<"User", "can", "login", "properly">>,
                                  <<>>>>]}

TestDeep ==
    [type |-> "Test Case", state |-> "Ready",
     title |-> <<"Reject", "invalid", "input">>,
     steps |-> <<"Step", "1.", "Step", "1.", "Step", "1.", "Step", "1.",
                 "Step", "1.", "maximum", "empty", "required", "api">>,
     expected |-> <<"error", "is", "displayed.">>,
     filler |-> 200, created |-> 2,
     updates |-> <<"Needs Review", "Ready">>]

TestSave ==
    [type |-> "Test Case", state |-> "Design",
     title |-> <<"Save", "record">>,
     steps |-> <<"Click", "save">>,
     expected |-> <<"Record", "saved">>,
     filler |-> 0, created |-> NoTime,
     updates |-> <<>>]

TestBug ==
    [type |-> "Bug", state |-> "Ready",
     title |-> <<"Update", "fails">>,
     steps |-> <<"GET", "api">>,
     expected |-> <<"200">>,
     filler |-> 30, created |-> 1,
     updates |-> <<"Needs Review">>]

WorkItems == {TestDeep, TestSave, TestBug}

Upd(id, revised, reviewed, new_state) ==
    [id |-> id, revised |-> revised, reviewed |-> reviewed, new_state |-> new_state]

StoryUpdates ==
    {<<>>,
     <<Upd(1, 1, FALSE, "New"), Upd(2, 3, TRUE, "QA In Progress"),
       Upd(3, 3, FALSE, "Passed QA ")>>,
     <<Upd(2, 1, TRUE, NoneStr), Upd(1, 1, FALSE, "Ready For QA"),
       Upd(3, NoTime, FALSE, "QA In Progress")>>}

Stories ==
    [tested_by : {"qa"},
     state : {"Passed QA ", "QA In Progress", "New"},
     tests_authored : BOOLEAN,
     tests_reviewed : BOOLEAN,
     ac : AcMarkups,
     description : {[stripped_len |-> 0, has_img |-> FALSE, clean_len |-> 0],
                    [stripped_len |-> 150, has_img |-> FALSE, clean_len |-> 120]},
     related : SeqsUpTo(WorkItems, MaxTests),
     updates : StoryUpdates]
    \cup
    [tested_by : {NoneStr}, state : {"New"}, tests_authored : {FALSE},
     tests_reviewed : {FALSE}, ac : {[html |-> FALSE, lines |-> <<>>]},
     description : {[stripped_len |-> 0, has_img |-> FALSE, clean_len |-> 0]},
     related : {<<>>}, updates : {<<>>}]

NoRow == [kind |-> "None"]

InitLocals ==
    [qa |-> NoneStr, state |-> "", tests_authored |-> FALSE,
     tests_reviewed |-> FALSE, ac_list |-> <<>>, tests |-> <<>>,
     tc_count |-> 0, test_states |-> <<>>,
     review_lifecycle_detected |-> FALSE, review_toggle_time |-> NoTime,
     earliest_test_created_time |-> NoTime, passed_qa_time |-> NoTime,
     state_history |-> <<>>, compliance_status |-> <<>>,
     severe_violation |-> FALSE, structural_coverage |-> 0,
     validation_coverage |-> 0, coverage |-> 0, test_depth_score |-> 0,
     ac_quality_score |-> 0, governance_score |-> 0, execution_score |-> 0,
     risk_level |-> ""]

InitStory ==
    /\ pc = "fetch_story"
    /\ env \in Stories
    /\ loc = InitLocals
    /\ row = NoRow
    /\ args = NoResult
    /\ ret = NoResult

\* lines 200-222: get_work_item; a failed fetch or a story without
\* Custom.TestedBy returns None
FetchStory ==
    /\ pc = "fetch_story"
    /\ \E ok \in BOOLEAN :
          IF ok /\ env.tested_by # NoneStr
          THEN /\ loc' = [loc EXCEPT !.qa = env.tested_by,
                                     !.state = StripLower(env.state),
                                     !.tests_authored = env.tests_authored,
                                     !.tests_reviewed = env.tests_reviewed,
                                     !.ac_list = extract_ac(env.ac)]
               /\ pc' = "fetch_tests"
          ELSE /\ pc' = "done"
               /\ UNCHANGED loc
    /\ UNCHANGED <<args, ret, env, row>>

\* lines 228-252: get_work_items_batch, whose exception is not caught here
FetchTests ==
    /\ pc = "fetch_tests"
    /\ \E ok \in BOOLEAN :
          IF ok \/ env.related = <<>>
          THEN LET tests == SelectSeq(env.related,
                                      LAMBDA t : StripLower(t.type) = "test case")
               IN  /\ loc' = [loc EXCEPT
                                 !.tests = tests,
                                 !.tc_count = Len(tests),
                                 !.test_states =
                                     [k \in 1..Len(tests) |-> StripLower(tests[k].state)]]
                   /\ pc' = "story_updates"
          ELSE /\ pc' = "raised"
               /\ UNCHANGED loc
    /\ UNCHANGED <<args, ret, env, row>>

\* lines 267-294: a failed get_work_item_updates leaves the timestamps None
CaptureStoryUpdates ==
    /\ pc = "story_updates"
    /\ \E ok \in BOOLEAN :
          LET t == IF ok
                   THEN StoryTimestamps(env.updates, 1,
                            [review_toggle_time |-> NoTime, passed_qa_time |-> NoTime])
                   ELSE [review_toggle_time |-> NoTime, passed_qa_time |-> NoTime]
          IN  loc' = [loc EXCEPT !.review_toggle_time = t.review_toggle_time,
                                 !.passed_qa_time = t.passed_qa_time]
    /\ pc' = "test_lifecycle"
    /\ UNCHANGED <<args, ret, env, row>>

\* lines 300-336: failed is the set of tests whose updates could not be
\* fetched
CaptureTestLifecycle ==
    /\ pc = "test_lifecycle"
    /\ \E failed \in SUBSET (1..loc.tc_count) :
          loc' = [loc EXCEPT
                     !.earliest_test_created_time = EarliestCreated(loc.tests),
                     !.review_lifecycle_detected =
                         ReviewLifecycleDetected(loc.tests, failed)]
    /\ pc' = "state_history"
    /\ UNCHANGED <<args, ret, env, row>>

\* line 342
ExtractStateHistory ==
    /\ pc = "state_history"
    /\ \E ok \in BOOLEAN :
          loc' = [loc EXCEPT !.state_history =
                     extract_state_history(ok, env.updates, loc.state)]
    /\ pc' = "assess"
    /\ UNCHANGED <<args, ret, env, row>>

\* lines 348-408: the compliance verdict and the scoring stages
AssessStory ==
    /\ pc = "assess"
    /\ LET verdict == evaluate_compliance(
                          [state |-> loc.state,
                           tests_authored |-> loc.tests_authored,
                           tests_reviewed |-> loc.tests_reviewed,
                           test_states |-> loc.test_states,
                           tc_count |-> loc.tc_count,
                           state_history |-> loc.state_history,
                           review_lifecycle_detected |-> loc.review_lifecycle_detected,
                           review_toggle_time |-> loc.review_toggle_time,
                           earliest_test_created_time |-> loc.earliest_test_created_time,
                           passed_qa_time |-> loc.passed_qa_time])
           test_texts == [k \in 1..Len(loc.tests) |-> build_test_text(loc.tests[k])]
           combined_test_text == JoinTexts(test_texts)
           structural_coverage ==
               evaluate_ac_coverage(loc.ac_list, combined_test_text).overall
           gap_data == detect_contextual_gaps(loc.ac_list, test_texts)
           validation_coverage == gap_data.scenario_coverage
           coverage == Round2(structural_coverage * STRUCTURAL_WEIGHT
                              + validation_coverage * COVERAGE_VALIDATION_WEIGHT, 100)
           test_depth_score ==
               calculate_test_depth(combined_test_text, SumFiller(loc.tests))
           ac_quality_score == evaluate_ac_quality(loc.ac_list)
           gov_data == calculate_governance_score(
                           Len(loc.ac_list), ac_quality_score, loc.tc_count,
                           structural_coverage, validation_coverage,
                           env.description)
           execution_data == calculate_qa_execution_score(
                                 coverage, validation_coverage, test_depth_score)
       IN  loc' = [loc EXCEPT
                      !.compliance_status = verdict.status,
                      !.severe_violation = verdict.severe,
                      !.structural_coverage = structural_coverage,
                      !.validation_coverage = validation_coverage,
                      !.coverage = coverage,
                      !.test_depth_score = test_depth_score,
                      !.ac_quality_score = ac_quality_score,
                      !.governance_score = gov_data.governance_score,
                      !.execution_score = execution_data.execution_score,
                      !.risk_level = execution_data.risk_level]
    /\ pc' = "emit"
    /\ UNCHANGED <<args, ret, env, row>>

\* lines 414-419 with the test-depth line left out
SevereOverrideKeepsDepth(l) ==
    IF l.severe_violation
    THEN [l EXCEPT !.coverage = 0, !.validation_coverage = 0,
                   !.execution_score = 0, !.risk_level = "Critical"]
    ELSE l

\* lines 414-419 with the governance and AC quality scores zeroed as well
SevereOverrideZeroesAll(l) ==
    IF l.severe_violation
    THEN [l EXCEPT !.coverage = 0, !.validation_coverage = 0,
                   !.test_depth_score = 0, !.execution_score = 0,
                   !.governance_score = 0, !.ac_quality_score = 0,
                   !.risk_level = "Critical"]
    ELSE l

\* lines 414-419
SevereOverride(l) ==
    IF l.severe_violation
    THEN [l EXCEPT !.coverage = 0, !.validation_coverage = 0,
                   !.test_depth_score = 0, !.execution_score = 0,
                   !.risk_level = "Critical"]
    ELSE l

\* lines 425-438 with the QA Performance Score never below the one of the
\* record collected before
ResultRecordKeepsBestScore(l) ==
    [kind |-> "record",
     QA |-> l.qa,
     Coverage |-> l.coverage,
     ScenarioCoverage |-> l.validation_coverage,
     TestDepthScore |-> l.test_depth_score,
     GovernanceScore |-> l.governance_score,
     ACQualityScore |-> l.ac_quality_score,
     QAPerformanceScore |->
         IF "rows" \in DOMAIN ret /\ ret.rows # <<>>
         THEN Max(ret.rows[Len(ret.rows)].QAPerformanceScore, l.execution_score)
         ELSE l.execution_score,
     Risk |-> l.risk_level,
     ComplianceStatus |-> l.compliance_status]

\* lines 425-438 (the scores are whole hundredths: round(x, 2) keeps them)
ResultRecord(l) ==
    [kind |-> "record",
     QA |-> l.qa,
     Coverage |-> l.coverage,
     ScenarioCoverage |-> l.validation_coverage,
     TestDepthScore |-> l.test_depth_score,
     GovernanceScore |-> l.governance_score,
     ACQualityScore |-> l.ac_quality_score,
     QAPerformanceScore |-> l.execution_score,
     Risk |-> l.risk_level,
     ComplianceStatus |-> l.compliance_status]

\* lines 414-438: the severe override and the returned record
EmitRecord ==
    /\ pc = "emit"
    /\ row' = ResultRecord(SevereOverride(loc))
    /\ pc' = "done"
    /\ UNCHANGED <<args, ret, env, loc>>

NextStory ==
    \/ FetchStory
    \/ FetchTests
    \/ CaptureStoryUpdates
    \/ CaptureTestLifecycle
    \/ ExtractStateHistory
    \/ AssessStory
    \/ EmitRecord

SpecStory == InitStory /\ [][NextStory]_vars

Emitted == pc = "done" /\ row # NoRow

\* C1: in the emitted record, a severe compliance verdict means Coverage %,
\* Scenario Coverage %, Test Depth Score and QA Performance Score are 0 and
\* Risk is 'Critical', whatever the scoring stages computed.
C1_SevereZeroesExecutionMetrics ==
    (Emitted /\ loc.severe_violation) =>
        /\ row.Coverage = 0
        /\ row.ScenarioCoverage = 0
        /\ row.TestDepthScore = 0
        /\ row.QAPerformanceScore = 0
        /\ row.Risk = "Critical"

\* a severe story whose stages had computed non-zero values and a risk other
\* than Critical
C1_Witness ==
    /\ Emitted /\ loc.severe_violation
    /\ loc.coverage >= Pts(60) /\ loc.validation_coverage = Pts(100)
    /\ loc.test_depth_score = Pts(100) /\ loc.execution_score > Pts(60)
    /\ loc.risk_level = "Low"
    /\ row.Coverage = 0 /\ row.QAPerformanceScore = 0 /\ row.Risk = "Critical"

\* C2 as stated: a severe verdict zeroes every numeric metric of the record,
\* Governance Score and AC Quality Score included.
C2_Original ==
    (Emitted /\ loc.severe_violation) =>
        /\ row.Coverage = 0
        /\ row.ScenarioCoverage = 0
        /\ row.TestDepthScore = 0
        /\ row.QAPerformanceScore = 0
        /\ row.GovernanceScore = 0
        /\ row.ACQualityScore = 0
        /\ row.Risk = "Critical"

\* C2 amended: a severe verdict zeroes Coverage %, Scenario Coverage %, Test
\* Depth Score and QA Performance Score and sets Risk to 'Critical', while
\* Governance Score and AC Quality Score keep the values the governance and
\* AC-quality stages computed.
C2_SevereKeepsGovernanceAndQuality ==
    (Emitted /\ loc.severe_violation) =>
        /\ row.Coverage + row.ScenarioCoverage + row.TestDepthScore
               + row.QAPerformanceScore = 0
        /\ row.Risk = "Critical"
        /\ row.GovernanceScore = loc.governance_score
        /\ row.ACQualityScore = loc.ac_quality_score

C2_Witness ==
    /\ Emitted /\ loc.severe_violation
    /\ row.QAPerformanceScore = 0 /\ row.Risk = "Critical"
    /\ row.GovernanceScore > Pts(50) /\ row.ACQualityScore > Pts(50)

C6_Cap(coverage) ==
    IF coverage < Pts(30) THEN Pts(45)
    ELSE IF coverage < Pts(40) THEN Pts(55)
    ELSE IF coverage < Pts(50) THEN Pts(65)
    ELSE IF coverage < Pts(60) THEN Pts(75)
    ELSE Hundred

\* C6: in the emitted record the QA Performance Score never exceeds the
\* coverage-bracket cap of the record's Coverage % (45 below 30, 55 below 40,
\* 65 below 50, 75 below 60).
C6_RecordScoreWithinCap ==
    Emitted => row.QAPerformanceScore <= C6_Cap(row.Coverage)

\* ------------------------------------------------------------------------
\* Specification of evaluate_ac_coverage as a function of the criteria and
\* the test text, called a second time on the list without one of its
\* Scope-Exclusion criteria
\* ------------------------------------------------------------------------

MaxAcs == 3

CoverageAcs ==
    {<<"Save", "the", "record">>,
     <<"Out", "of", "scope:", "legacy", "import">>,
     <<"login", "will", "be", "skipped">>,
     <<"Display", "error", "when", "date", "is", "invalid">>,
     <<"Update", "the", "database", "schema">>}

CoverageTexts ==
    {<<>>, build_test_text(TestDeep), build_test_text(TestSave),
     build_test_text(TestBug)}

CoverageArgs ==
    [ac_list : SeqsUpTo(CoverageAcs, MaxAcs), test_text : CoverageTexts]

InitCoverage ==
    /\ pc = "call"
    /\ NoStory
    /\ args \in CoverageArgs
    /\ ret = NoResult

EvaluateAcCoverage ==
    /\ pc = "call"
    /\ ret' = [first |-> evaluate_ac_coverage(args.ac_list, args.test_text),
               removed |-> 0, second |-> NoResult]
    /\ pc' = "evaluated"
    /\ UNCHANGED <<args, env, loc, row>>

\* the list without its criterion i
WithoutCriterion(ac_list, i) ==
    SubSeq(ac_list, 1, i - 1) \o SubSeq(ac_list, i + 1, Len(ac_list))

\* the call on the same criteria less one Scope-Exclusion criterion
EvaluateWithoutExcluded ==
    /\ pc = "evaluated"
    /\ \E i \in 1..Len(args.ac_list) :
          /\ classify_ac_intent(args.ac_list[i]) = "Scope Exclusion"
          /\ ret' = [ret EXCEPT
                        !.removed = i,
                        !.second = evaluate_ac_coverage(
                                       WithoutCriterion(args.ac_list, i),
                                       args.test_text)]
    /\ pc' = "compared"
    /\ UNCHANGED <<args, env, loc, row>>

NextCoverage == EvaluateAcCoverage \/ EvaluateWithoutExcluded

SpecCoverage == InitCoverage /\ [][NextCoverage]_vars

C11_Excluded(ac) == classify_ac_intent(ac) = "Scope Exclusion"

\* the score in [0,1] of a criterion that is not excluded
C11_Score(ac, test_text) ==
    IF classify_ac_intent(ac) = "Technical"
    THEN behavioral_validation_score(test_text)
    ELSE weighted_keyword_overlap(ac, test_text)

RECURSIVE C11_SumScores(_, _)
C11_SumScores(ac_list, test_text) ==
    IF ac_list = <<>> THEN Frac(0, 1)
    ELSE IF C11_Excluded(Head(ac_list))
    THEN C11_SumScores(Tail(ac_list), test_text)
    ELSE FracAdd(C11_Score(Head(ac_list), test_text),
                 C11_SumScores(Tail(ac_list), test_text))

C11_Counted(ac_list) == {i \in 1..Len(ac_list) : ~C11_Excluded(ac_list[i])}

\* C11: every Scope-Exclusion criterion is reported with score None and
\* category 'Excluded' (and no other criterion is); the overall coverage is
\* 100 x the sum of the other criteria's scores over their number, to two
\* places, and 0 when there is no other criterion; the overall coverage of
\* the list less one excluded criterion is the same.
C11_ExcludedOutOfAverage ==
    pc # "call" =>
        LET acs == args.ac_list
            r == ret.first
            total == C11_SumScores(acs, args.test_text)
            n == Cardinality(C11_Counted(acs))
        IN  /\ Len(r.results) = Len(acs)
            /\ \A i \in 1..Len(acs) :
                  IF C11_Excluded(acs[i])
                  THEN /\ r.results[i].score = NoneNum
                       /\ r.results[i].category = "Excluded"
                  ELSE /\ r.results[i].score # NoneNum
                       /\ r.results[i].category # "Excluded"
            /\ r.overall = IF n = 0 THEN 0
                           ELSE Round2(total.n * 10000, total.d * n)
            /\ pc = "compared" => ret.second.overall = r.overall

\* two counted criteria of different scores around an excluded one, which the
\* second call left out
C11_Witness ==
    /\ pc = "compared"
    /\ Len(args.ac_list) = 3 /\ ret.removed = 2
    /\ ret.first.results[1].score = Pts(100)
    /\ ret.first.results[3].score = 0
    /\ ret.first.overall = Pts(50)
    /\ ret.second.overall = Pts(50)

\* ------------------------------------------------------------------------
\* calculate_qii: range of the final score and the risk tier
\* ------------------------------------------------------------------------

\* C12: the final score calculate_qii returns is within 0..100 for every
\* combination of component scores, complexity multiplier and critical-gap
\* flag.
C12_QiiInRange ==
    pc = "done" => (0 <= ret.qii /\ ret.qii <= Hundred)

\* the coverage the risk rules read: None counts as 0
C13_Coverage == Or0(args.coverage)

\* C13: the risk tier is that of the first matching rule: coverage < 40
\* Critical; coverage < 60 High; critical_gap High; final score < 60 Medium;
\* otherwise Low.  So Low means coverage >= 60, no critical gap and a final
\* score >= 60.
C13_RiskByFirstMatch ==
    pc = "done" =>
        /\ ret.risk_level =
              CASE C13_Coverage < Pts(40) -> "Critical"
                [] C13_Coverage \in Pts(40)..(Pts(60) - 1) -> "High"
                [] C13_Coverage >= Pts(60) /\ args.critical_gap -> "High"
                [] C13_Coverage >= Pts(60) /\ ~args.critical_gap
                       /\ ret.qii < Pts(60) -> "Medium"
                [] OTHER -> "Low"
        /\ ret.risk_level = "Low" =>
              /\ C13_Coverage >= Pts(60)
              /\ ~args.critical_gap
              /\ ret.qii >= Pts(60)

\* full coverage and a critical gap with a score under 60: High, by the
\* rule that comes before the score rule
C13_Witness ==
    /\ pc = "done"
    /\ args.coverage = Pts(100) /\ args.critical_gap
    /\ ret.qii > 0 /\ ret.qii < Pts(60)
    /\ ret.risk_level = "High"

\* ------------------------------------------------------------------------
\* Specification of run_qa_analysis: the stories of the query are processed
\* one after the other by the steps of process_story, their records are
\* collected in rows and saved at the end
\* ------------------------------------------------------------------------

MaxStories == 3

\* the query's stories: one with a reviewed test and an update history, one
\* with a plain test, one nobody tests
InitRun ==
    /\ pc = "begin"
    /\ args \in [story_ids : SeqsUpTo(
           {[tested_by |-> "qa", state |-> "Passed QA ", tests_authored |-> TRUE,
             tests_reviewed |-> TRUE,
             ac |-> [html |-> FALSE,
                     lines |-> <<<<"Display", "error", "when", "date", "is", "invalid">>>>],
             description |-> [stripped_len |-> 150, has_img |-> FALSE, clean_len |-> 120],
             related |-> <<TestDeep>>,
             updates |-> <<Upd(1, 1, FALSE, "New"), Upd(2, 3, TRUE, "QA In Progress"),
                           Upd(3, 3, FALSE, "Passed QA ")>>],
            [tested_by |-> "qa", state |-> "New", tests_authored |-> FALSE,
             tests_reviewed |-> FALSE,
             ac |-> [html |-> TRUE, lines |-> <<<<"1.", "Save", "the", "record">>>>],
             description |-> [stripped_len |-> 0, has_img |-> FALSE, clean_len |-> 0],
             related |-> <<TestSave>>,
             updates |-> <<>>],
            [tested_by |-> NoneStr, state |-> "New", tests_authored |-> FALSE,
             tests_reviewed |-> FALSE, ac |-> [html |-> FALSE, lines |-> <<>>],
             description |-> [stripped_len |-> 0, has_img |-> FALSE, clean_len |-> 0],
             related |-> <<>>, updates |-> <<>>]},
           MaxStories)]
    /\ ret = [index |-> 0, rows |-> <<>>, log |-> <<>>, status |-> "", saved |-> <<>>]
    /\ env = NoResult
    /\ loc = InitLocals
    /\ row = NoRow

\* lines 441-476: get_story_ids and the get_work_item of the first story are
\* not guarded; an empty query and a sprint that already ran today end the run
BeginRun ==
    /\ pc = "begin"
    /\ \E ids_ok \in BOOLEAN, first_ok \in BOOLEAN, already_ran_today \in BOOLEAN :
          IF ~ids_ok
          THEN pc' = "raised" /\ UNCHANGED <<ret, env>>
          ELSE IF args.story_ids = <<>>
          THEN pc' = "finished" /\ ret' = [ret EXCEPT !.status = "No Data"]
               /\ UNCHANGED env
          ELSE IF ~first_ok
          THEN pc' = "raised" /\ UNCHANGED <<ret, env>>
          ELSE IF already_ran_today
          THEN pc' = "finished" /\ ret' = [ret EXCEPT !.status = "Skipped"]
               /\ UNCHANGED env
          ELSE /\ pc' = "fetch_story"
               /\ ret' = [ret EXCEPT !.index = 1]
               /\ env' = args.story_ids[1]
    /\ UNCHANGED <<args, loc, row>>

\* lines 477-485: the result of process_story is appended when it is not
\* None, and the loop goes on with the next story id; log keeps what each
\* call of process_story had fetched next to what it returned
CollectResult ==
    /\ pc = "done"
    /\ ret.status = ""
    /\ ret' = [ret EXCEPT
                  !.rows = IF row # NoRow THEN Append(@, row) ELSE @,
                  !.log = Append(@, [story |-> env, fetched |-> loc, result |-> row]),
                  !.index = IF @ < Len(args.story_ids) THEN @ + 1 ELSE @]
    /\ IF ret.index < Len(args.story_ids)
       THEN /\ pc' = "fetch_story"
            /\ env' = args.story_ids[ret.index + 1]
            /\ loc' = InitLocals
            /\ row' = NoRow
       ELSE /\ pc' = "save"
            /\ UNCHANGED <<env, loc, row>>
    /\ UNCHANGED args

\* lines 490-512: save_report, append_history and save_story_details on the
\* collected rows, or 'No Data' when there are none
SaveResults ==
    /\ pc = "save"
    /\ ret' = IF ret.rows = <<>>
              THEN [ret EXCEPT !.status = "No Data"]
              ELSE [ret EXCEPT !.status = "Success", !.saved = ret.rows]
    /\ pc' = "finished"
    /\ UNCHANGED <<args, env, loc, row>>

NextRun ==
    \/ BeginRun
    \/ FetchStory
    \/ FetchTests
    \/ CaptureStoryUpdates
    \/ CaptureTestLifecycle
    \/ ExtractStateHistory
    \/ AssessStory
    \/ EmitRecord
    \/ CollectResult
    \/ SaveResults

SpecRun == InitRun /\ [][NextRun]_vars

\* what one call of process_story worked on: the story and what the fetches
\* of its tests and update histories returned
C14_Inputs(e) ==
    [story |-> e.story,
     qa |-> e.fetched.qa,
     tests |-> e.fetched.tests,
     review_lifecycle_detected |-> e.fetched.review_lifecycle_detected,
     review_toggle_time |-> e.fetched.review_toggle_time,
     earliest_test_created_time |-> e.fetched.earliest_test_created_time,
     passed_qa_time |-> e.fetched.passed_qa_time,
     state_history |-> e.fetched.state_history]

C15_FetchFailureSkipsOnlyThatStory ==
    ~(pc = "raised" /\ ret.index >= 1)

\* the compliance verdict on the story's completely fetched records
C16_FullVerdict ==
    LET t == StoryTimestamps(env.updates, 1,
                 [review_toggle_time |-> NoTime, passed_qa_time |-> NoTime])
    IN  evaluate_compliance(
            [state |-> loc.state,
             tests_authored |-> loc.tests_authored,
             tests_reviewed |-> loc.tests_reviewed,
             test_states |-> loc.test_states,
             tc_count |-> loc.tc_count,
             state_history |-> extract_state_history(TRUE, env.updates, loc.state),
             review_lifecycle_detected |-> ReviewLifecycleDetected(loc.tests, {}),
             review_toggle_time |-> t.review_toggle_time,
             earliest_test_created_time |-> EarliestCreated(loc.tests),
             passed_qa_time |-> t.passed_qa_time])

\* C16: a story is processed all-or-nothing: a record is emitted only from
\* completely fetched data, so the compliance status of an emitted record is
\* the verdict on the story's full update history and its tests' full
\* update histories.
C16_AllOrNothing ==
    Emitted => row.ComplianceStatus = C16_FullVerdict.status

\* C17: both advisory gates treat an absent or malformed insight (missing,
\* not a dict, lacking keys, a null or non-list missing_validation_dimensions,
\* a non-numeric confidence) as a no-op: neither apply_ai_override nor
\* apply_ai_adjustments ever raises an exception.
C17_GatesNeverRaise ==
    /\ ret.override # NoResult => "raised" \notin DOMAIN ret.override
    /\ ret.adjustments # NoResult => ret.adjustments.raised = "no"

\* C18: for a story with no acceptance criteria, no linked tests and an
\* empty description, process_story raises no error and the emitted record
\* has Coverage % 0 and QA Performance Score 0.
C18_EmptyStoryScoresZero ==
    (/\ pc \in {"done", "raised"}
     /\ env.tested_by # NoneStr
     /\ env.ac.lines = <<>>
     /\ env.related = <<>>
     /\ env.description.stripped_len = 0
     /\ loc.qa # NoneStr)
        => /\ Emitted
           /\ row.Coverage = 0
           /\ row.QAPerformanceScore = 0

\* t is present and strictly earlier than the earliest test creation
C19_Earlier(t) ==
    /\ args.earliest_test_created_time # NoTime
    /\ t # NoTime
    /\ t < args.earliest_test_created_time

\* C19 as stated: whenever the earliest test creation time is present and
\* the passed-QA time (or the review-toggle time) is present and strictly
\* earlier, the verdict is severe and contains the corresponding violation.
C19_Original ==
    pc = "done" =>
        /\ C19_Earlier(args.passed_qa_time)
               => (ret.severe /\ V_PassedBeforeTests \in Range(ret.status))
        /\ C19_Earlier(args.review_toggle_time)
               => (ret.severe /\ V_ReviewBeforeTests \in Range(ret.status))

\* C19 amended: the verdict contains 'Test Cases Created After Story Was
\* Passed QA' exactly when the story's state is 'passed qa' and the passed-QA
\* time is present and strictly earlier than a present earliest test creation
\* time, and 'Review Toggle Enabled Before Test Cases Were Created' exactly
\* when tests_reviewed is on and the review-toggle time is present and
\* strictly earlier; a verdict with either violation is severe, and with a
\* timestamp absent the rule does not fire.
C19_TemporalIntegrity ==
    pc = "done" =>
        /\ V_PassedBeforeTests \in Range(ret.status)
               <=> (NormState(args.state) = "passed qa"
                    /\ C19_Earlier(args.passed_qa_time))
        /\ V_ReviewBeforeTests \in Range(ret.status)
               <=> (args.tests_reviewed /\ C19_Earlier(args.review_toggle_time))
        /\ (V_PassedBeforeTests \in Range(ret.status)
            \/ V_ReviewBeforeTests \in Range(ret.status)) => ret.severe

\* a passed story whose tests were created after it passed QA and after the
\* review toggle was switched on, with no violation of another kind
C19_Witness ==
    /\ pc = "done"
    /\ args.state = "Passed QA "
    /\ args.passed_qa_time = 1
    /\ args.review_toggle_time = 1
    /\ args.earliest_test_created_time = 2
    /\ args.tests_reviewed
    /\ ret.severe
    /\ ret.status = <<V_PassedBeforeTests, V_ReviewBeforeTests>>

\* how many times violation v is in the status
C20_Count(v) == Cardinality({i \in 1..Len(ret.status) : ret.status[i] = v})

\* the review toggle is on, tests exist and none was seen in 'needs review'
C20_NoReviewObserved ==
    args.tests_reviewed /\ args.tc_count > 0 /\ ~args.review_lifecycle_detected

\* C20: with tests_reviewed on, tc_count > 0 and no test ever observed in
\* 'needs review', exactly one of two violations is appended: 'Test Case
\* Skipped Review Phase' if some test state is 'ready', which leaves the
\* severity what it is without the rule, and otherwise 'Review Toggle Enabled
\* Without Any Test Case Entering Needs Review', which makes the verdict
\* severe; when 'needs review' was observed, or tests_reviewed is off, or
\* tc_count is 0, neither is appended.
C20_ReviewLifecycleDiscipline ==
    pc = "done" =>
        LET ready == \E s \in Range(NormStates(args.test_states)) : s = "ready"
            observed == evaluate_compliance(
                            [args EXCEPT !.review_lifecycle_detected = TRUE])
        IN  /\ (C20_NoReviewObserved /\ ready)
                   => /\ C20_Count(V_SkippedReview) = 1
                      /\ C20_Count(V_ReviewNoLifecycle) = 0
                      /\ ret.severe = observed.severe
            /\ (C20_NoReviewObserved /\ ~ready)
                   => /\ C20_Count(V_SkippedReview) = 0
                      /\ C20_Count(V_ReviewNoLifecycle) = 1
                      /\ ret.severe
            /\ ~C20_NoReviewObserved
                   => /\ C20_Count(V_SkippedReview) = 0
                      /\ C20_Count(V_ReviewNoLifecycle) = 0

\* a reviewed story whose only test went straight to Ready: the skipped
\* review is reported and the verdict is not severe
C20_Witness ==
    /\ pc = "done"
    /\ C20_NoReviewObserved
    /\ args.test_states = <<"Ready">>
    /\ V_SkippedReview \in Range(ret.status)
    /\ ~ret.severe

\* the normalised test states of the call
C21_TestStates == Range(NormStates(args.test_states))

\* C21: when the current state is 'passed qa', each unmet condition appends
\* its own violation independently of the others (zero test cases; authored
\* toggle off; reviewed toggle off; some test in 'needs review'; tc_count > 0
\* with some test not in 'ready'), and zero test cases or an authored or
\* reviewed toggle that is off makes the verdict severe; when the current
\* state is not 'passed qa' none of these violations is appended.
C21_PassedQAValidation ==
    pc = "done" =>
        LET passed == NormState(args.state) = "passed qa"
            in_status(v) == v \in Range(ret.status)
        IN  /\ in_status(V_PassedNoTests) <=> (passed /\ args.tc_count = 0)
            /\ in_status(V_PassedNoAuthored) <=> (passed /\ ~args.tests_authored)
            /\ in_status(V_PassedNoReviewed) <=> (passed /\ ~args.tests_reviewed)
            /\ in_status(V_StillNeedsReview)
                   <=> (passed /\ "needs review" \in C21_TestStates)
            /\ in_status(V_NotAllReady)
                   <=> (passed /\ args.tc_count > 0
                        /\ \E t \in C21_TestStates : t # "ready")
            /\ (passed /\ (args.tc_count = 0 \/ ~args.tests_authored
                           \/ ~args.tests_reviewed)) => ret.severe

\* ------------------------------------------------------------------------
\* Specification of evaluate_compliance on longer state histories, with the
\* timestamps absent
\* ------------------------------------------------------------------------

MaxWorkflowHist == 4

InitWorkflow ==
    /\ pc = "call"
    /\ NoStory
    /\ args \in [state : RawStoryStates,
                 tests_authored : BOOLEAN,
                 tests_reviewed : BOOLEAN,
                 test_states : {<<>>, <<"Ready">>},
                 tc_count : 0..1,
                 state_history : SeqsUpTo(HistStates \cup {"New"}, MaxWorkflowHist),
                 review_lifecycle_detected : BOOLEAN,
                 review_toggle_time : {NoTime},
                 earliest_test_created_time : {NoTime},
                 passed_qa_time : {NoTime}]
    /\ ret = NoResult

SpecWorkflow == InitWorkflow /\ [][NextCompliance]_vars

\* the normalised history of the call
C22_States == NormStates(args.state_history)

\* C22: with current state 'passed qa' and a non-empty history, if 'qa in
\* progress' never occurs in the history the 'QA Skipped QA In Progress State
\* Before Passing' violation is appended; otherwise, if the entry before the
\* last entry of the history (the final 'passed qa') is not 'qa in progress',
\* the 'Passed QA Without Active QA Execution' violation is appended.  The two
\* never appear together, a verdict with no other violation than these is not
\* severe, and with an empty history or a current state other than 'passed
\* qa' neither appears.
C22_PassingSequence ==
    pc = "done" =>
        LET h == C22_States
            passed == NormState(args.state) = "passed qa" /\ h # <<>>
            entered == "qa in progress" \in Range(h)
            skipped == V_SkippedQAIP \in Range(ret.status)
            inactive == V_NoActiveQA \in Range(ret.status)
        IN  /\ skipped <=> (passed /\ ~entered)
            /\ inactive <=> (/\ passed /\ entered /\ Len(h) >= 2
                             /\ h[Len(h) - 1] # "qa in progress")
            /\ ~(skipped /\ inactive)
            /\ Range(ret.status) \subseteq {V_SkippedQAIP, V_NoActiveQA}
                   => ~ret.severe

\* a story that went from QA to rework and was then passed without a new QA
\* execution: the only violation, and not a severe one
C22_Witness ==
    /\ pc = "done"
    /\ args.state = "Passed QA "
    /\ C22_States = <<"ready for qa", "qa in progress", "rework", "passed qa">>
    /\ ret = [status |-> <<V_NoActiveQA>>, severe |-> FALSE]

\* how many times violation v is in the status
C23_Count(v) == Cardinality({i \in 1..Len(ret.status) : ret.status[i] = v})

\* how many transitions into 'qa in progress' come from a state of P
C23_Transitions(P) ==
    Cardinality({i \in 1..(Len(C22_States) - 1) :
                    C22_States[i + 1] = "qa in progress" /\ C22_States[i] \in P})

\* C23: every transition into 'qa in progress' in the state history is
\* classified by the state before it and yields at most one violation: one
\* 'Dev Skipped Ready For QA After Rework' per transition from 'rework', one
\* 'QA Started Before Dev Handoff' per transition from 'design', 'merged' or
\* 'new', which makes the verdict severe, one 'Story Reopened After Passed
\* QA' per transition from 'passed qa', and none for another predecessor; a
\* verdict with only rework and reopened violations is not severe.
C23_TransitionsIntoQA ==
    pc = "done" =>
        /\ C23_Count(V_ReworkSkip) = C23_Transitions({"rework"})
        /\ C23_Count(V_QABeforeHandoff) = C23_Transitions({"design", "merged", "new"})
        /\ C23_Count(V_Reopened) = C23_Transitions({"passed qa"})
        /\ C23_Count(V_QABeforeHandoff) > 0 => ret.severe
        /\ Range(ret.status) \subseteq {V_ReworkSkip, V_Reopened} => ~ret.severe

\* QA started after a rework without handoff, the story passed and was
\* reopened: one violation for each of the two transitions, none severe
C23_Witness ==
    /\ pc = "done"
    /\ C22_States = <<"rework", "qa in progress", "passed qa", "qa in progress">>
    /\ ret = [status |-> <<V_ReworkSkip, V_Reopened>>, severe |-> FALSE]

\* the position of a violation in the order in which the rules are evaluated
C24_Rank(v) ==
    CASE v = V_PassedBeforeTests -> 1
      [] v = V_ReviewBeforeTests -> 2
      [] v = V_AuthoredNoTests   -> 3
      [] v = V_TestsToggleOff    -> 4
      [] v = V_ModifiedBefore    -> 5
      [] v = V_NotNeedsReview    -> 6
      [] v = V_SkippedReview     -> 7
      [] v = V_ReviewNoLifecycle -> 7
      [] v = V_PassedNoTests     -> 8
      [] v = V_PassedNoAuthored  -> 9
      [] v = V_PassedNoReviewed  -> 10
      [] v = V_StillNeedsReview  -> 11
      [] v = V_NotAllReady       -> 12
      [] v = V_SkippedQAIP       -> 13
      [] v = V_NoActiveQA        -> 13
      [] v = V_ReworkSkip        -> 14
      [] v = V_QABeforeHandoff   -> 15
      [] v = V_Reopened          -> 15
      [] OTHER                   -> 0

\* the violations whose rule sets severe_violation
C24_SevereViolations ==
    {V_PassedBeforeTests, V_ReviewBeforeTests, V_AuthoredNoTests,
     V_ReviewNoLifecycle, V_PassedNoTests, V_QABeforeHandoff}

\* the condition of some rule holds for the inputs of the call
C24_SomeRuleFires ==
    LET passed == NormState(args.state) = "passed qa"
        ts == Range(NormStates(args.test_states))
        h == NormStates(args.state_history)
        e == args.earliest_test_created_time
        tests == args.tc_count > 0
    IN  \/ passed /\ args.passed_qa_time # NoTime /\ e # NoTime
               /\ args.passed_qa_time < e
        \/ args.tests_reviewed /\ args.review_toggle_time # NoTime /\ e # NoTime
               /\ args.review_toggle_time < e
        \/ args.tests_authored /\ ~tests
        \/ ~args.tests_authored /\ tests
        \/ args.tests_authored /\ ~args.tests_reviewed /\ tests
               /\ \E t \in ts : t # "needs review"
        \/ args.tests_reviewed /\ tests /\ ~args.review_lifecycle_detected
        \/ passed /\ (\/ ~tests \/ ~args.tests_authored \/ ~args.tests_reviewed
                      \/ "needs review" \in ts
                      \/ \E t \in ts : t # "ready")
        \/ passed /\ h # <<>>
               /\ (\/ "qa in progress" \notin Range(h)
                   \/ Len(h) >= 2 /\ h[Len(h) - 1] # "qa in progress")
        \/ \E i \in 1..(Len(h) - 1) :
               /\ h[i + 1] = "qa in progress"
               /\ h[i] \in {"rework", "design", "merged", "new", "passed qa"}

\* C24: the verdict is well-formed for every input: the status is exactly
\* 'Compliant' if and only if no rule fired, and then severe is False;
\* otherwise the status is the fired violations in rule-evaluation order and
\* severe is True if and only if a fired rule set it.  ('Compliant', True)
\* is never returned.
C24_VerdictWellFormed ==
    pc = "done" =>
        /\ ret.status = <<"Compliant">> <=> ~C24_SomeRuleFires
        /\ ret.status = <<"Compliant">> => ~ret.severe
        /\ ret.status # <<>>
        /\ ret.status # <<"Compliant">> =>
              /\ \A i \in 1..Len(ret.status) : C24_Rank(ret.status[i]) > 0
              /\ \A i \in 1..(Len(ret.status) - 1) :
                     C24_Rank(ret.status[i]) <= C24_Rank(ret.status[i + 1])
              /\ ret.severe <=> (Range(ret.status) \cap C24_SevereViolations # {})

\* a passed story with violations of the structural, the Passed-QA and the
\* workflow group, reported in that order with severe set
C24_Witness ==
    /\ pc = "done"
    /\ Len(ret.status) >= 3
    /\ ret.status[1] = V_ReviewBeforeTests
    /\ V_PassedNoAuthored \in Range(ret.status)
    /\ ret.status[Len(ret.status)] = V_SkippedQAIP
    /\ ret.severe

\* the insight of the call is a dict with a numeric confidence of at least
\* 0.60
C25_GateApplies ==
    /\ args.ai_insight.kind = "dict"
    /\ args.ai_insight.confidence \notin {NoneNum, NonNumeric}
    /\ args.ai_insight.confidence >= 60

\* the number of missing validation dimensions the insight reports
C25_MissingDims ==
    IF args.ai_insight.missing.type = "list" THEN args.ai_insight.missing.len
    ELSE 0

\* C25: given an insight with confidence >= 0.60 (0.60 itself included),
\* apply_ai_override returns the pillars (each in [0,100]) adjusted so:
\* clarity = min(clarity, 60) if requirement_ambiguity is set, else
\* unchanged; documentation = 70 if requirement_ambiguity is set and
\* documentation was exactly 100, else unchanged; validation =
\* min(validation, 65) if two or more missing dimensions are reported,
\* min(validation, 75) if exactly one, else unchanged; traceability is always
\* unchanged.
C25_OverrideCaps ==
    (ret.override # NoResult /\ C25_GateApplies) =>
        LET P == args.base_pillars
            A == ret.override.adjusted_pillars
            amb == args.ai_insight.requirement_ambiguity
        IN  /\ ret.override.ai_applied
            /\ A.clarity = IF amb THEN Min(P.clarity, Pts(60)) ELSE P.clarity
            /\ A.documentation =
                   IF amb /\ P.documentation = Pts(100) THEN Pts(70)
                   ELSE P.documentation
            /\ A.validation =
                   IF C25_MissingDims >= 2 THEN Min(P.validation, Pts(65))
                   ELSE IF C25_MissingDims = 1 THEN Min(P.validation, Pts(75))
                   ELSE P.validation
            /\ A.traceability = P.traceability

\* an ambiguous insight at exactly 0.60 with one missing dimension: clarity,
\* validation and documentation are lowered, traceability is kept
C25_Witness ==
    /\ ret.override # NoResult
    /\ args.ai_insight.kind = "dict"
    /\ args.ai_insight.confidence = 60
    /\ args.ai_insight.requirement_ambiguity
    /\ args.ai_insight.missing = [type |-> "list", len |-> 1]
    /\ args.base_pillars = [clarity |-> Pts(80), validation |-> Pts(80),
                            traceability |-> Pts(100), documentation |-> Pts(100)]
    /\ ret.override.adjusted_pillars =
           [clarity |-> Pts(60), validation |-> Pts(75),
            traceability |-> Pts(100), documentation |-> Pts(70)]

\* ------------------------------------------------------------------------
\* devops_client._request (src/devops_client.py)
\*
\* args.responses[i] is what the i-th HTTP attempt of the call meets: a
\* response with a status and a body that is JSON or not, or a transport
\* error (kind "error").  loc.attempt is the loop variable, loc.sent counts
\* the calls of requests.request.
\* ------------------------------------------------------------------------

MAX_RETRIES == 3

InitRequest ==
    /\ pc = "request"
    /\ args \in [responses :
                    [1..MAX_RETRIES ->
                        [kind : {"http"},
                         status : {200, 401, 404, 429, 500, 502, 503, 504},
                         body_json : BOOLEAN]
                        \cup {[kind |-> "error", status |-> 0, body_json |-> FALSE]}]]
    /\ loc = [attempt |-> 1, sent |-> 0, response |-> NoResult, exc |-> ""]
    /\ ret = NoResult
    /\ env = NoResult
    /\ row = NoResult

\* lines 34-42: requests.request, which raises on a transport error
SendRequest ==
    /\ pc = "request"
    /\ LET response == args.responses[loc.attempt]
       IN  IF response.kind = "error"
           THEN /\ loc' = [loc EXCEPT !.sent = @ + 1, !.exc = "ConnectionError"]
                /\ pc' = "except"
           ELSE /\ loc' = [loc EXCEPT !.sent = @ + 1, !.response = response]
                /\ pc' = "check"
    /\ UNCHANGED <<args, ret, env, row>>

\* lines 45-58 with the test of response.ok left out: the body is returned
\* whatever the status
CheckResponseReturnsAnyBody ==
    /\ pc = "check"
    /\ IF loc.response.status \in {429, 500, 502, 503, 504}
       THEN IF loc.attempt < MAX_RETRIES
            THEN /\ loc' = [loc EXCEPT !.attempt = @ + 1]
                 /\ pc' = "request"
                 /\ UNCHANGED ret
            ELSE /\ ret' = Raised("request failed after retries")
                 /\ pc' = "raised"
                 /\ UNCHANGED loc
       ELSE IF ~loc.response.body_json
       THEN /\ loc' = [loc EXCEPT !.exc = "JSONDecodeError"]
            /\ pc' = "except"
            /\ UNCHANGED ret
       ELSE /\ ret' = [op |-> "returned", json |-> loc.response]
            /\ pc' = "returned"
            /\ UNCHANGED loc
    /\ UNCHANGED <<args, env, row>>

\* lines 45-58 of the try block, and line 65 when the loop ends on a retry:
\* a throttling or server-error status continues the loop, another non-OK
\* status raises the API error inside the try, an OK response returns
\* response.json(), which raises when the body is not JSON
CheckResponse ==
    /\ pc = "check"
    /\ IF loc.response.status \in {429, 500, 502, 503, 504}
       THEN IF loc.attempt < MAX_RETRIES
            THEN /\ loc' = [loc EXCEPT !.attempt = @ + 1]
                 /\ pc' = "request"
                 /\ UNCHANGED ret
            ELSE /\ ret' = Raised("request failed after retries")
                 /\ pc' = "raised"
                 /\ UNCHANGED loc
       ELSE IF loc.response.status >= 400
       THEN /\ loc' = [loc EXCEPT !.exc = "API Error"]
            /\ pc' = "except"
            /\ UNCHANGED ret
       ELSE IF ~loc.response.body_json
       THEN /\ loc' = [loc EXCEPT !.exc = "JSONDecodeError"]
            /\ pc' = "except"
            /\ UNCHANGED ret
       ELSE /\ ret' = [op |-> "returned", json |-> loc.response]
            /\ pc' = "returned"
            /\ UNCHANGED loc
    /\ UNCHANGED <<args, env, row>>

\* lines 60-63: the exception is re-raised on the last attempt only;
\* otherwise the loop goes on with the next attempt
HandleException ==
    /\ pc = "except"
    /\ IF loc.attempt = MAX_RETRIES
       THEN /\ ret' = Raised(loc.exc)
            /\ pc' = "raised"
            /\ UNCHANGED loc
       ELSE /\ loc' = [loc EXCEPT !.attempt = @ + 1]
            /\ pc' = "request"
            /\ UNCHANGED ret
    /\ UNCHANGED <<args, env, row>>

NextRequest ==
    \/ SendRequest
    \/ CheckResponse
    \/ HandleException

\* the call runs on: no step of it waits for anything but the response and
\* the sleep between attempts
SpecRequest == InitRequest /\ [][NextRequest]_vars /\ WF_vars(NextRequest)

\* a response with a non-OK status that is not a throttling or server error
C26_OtherNonOk(r) ==
    r.kind = "http" /\ r.status >= 400 /\ r.status \notin {429, 500, 502, 503, 504}

\* C26: _request retries only on throttling or server-error responses (429,
\* 500, 502, 503, 504): after a response with another non-OK status (e.g.
\* 404) no further HTTP attempt is made, the API error is raised at once.
C26_NoRetryOnOtherStatus ==
    \A i \in 1..(loc.sent - 1) : ~C26_OtherNonOk(args.responses[i])

\* C29: _request always terminates after at most MAX_RETRIES (3) HTTP
\* attempts, whatever responses and transport errors occur: it returns the
\* JSON body of an OK response or raises an exception, and never returns a
\* value for a non-OK response.
C29_TerminatesWithinRetries ==
    /\ [](/\ loc.sent <= MAX_RETRIES
          /\ pc = "returned" =>
                 /\ ret.json = args.responses[loc.sent]
                 /\ ret.json.status < 400 /\ ret.json.body_json
          /\ pc = "raised" => "raised" \in DOMAIN ret)
    /\ <>(pc \in {"returned", "raised"})

\* the call that was throttled, then met a transport error, and returned the
\* body of the third response
C29_Witness ==
    /\ pc = "returned"
    /\ loc.sent = MAX_RETRIES
    /\ args.responses[1].status = 429
    /\ args.responses[2].kind = "error"
    /\ ret.json = args.responses[3]

\* ------------------------------------------------------------------------
\* Specification of extract_state_history as a function of the update
\* records the tracker returns (or fails to return) and the current state
\* ------------------------------------------------------------------------

MaxUpdates == 3

InitHistory ==
    /\ pc = "call"
    /\ NoStory
    /\ args \in [fetch_ok : BOOLEAN,
                 updates : SeqsUpTo(
                     {Upd(id, NoTime, FALSE, st) :
                         id \in 1..3,
                         st \in {NoneStr, "New", "QA In Progress", "Passed QA "}},
                     MaxUpdates),
                 current_state : {"Passed QA ", "QA In Progress"}]
    /\ ret = NoResult

CallExtractStateHistory ==
    /\ pc = "call"
    /\ ret' = extract_state_history(args.fetch_ok, args.updates, args.current_state)
    /\ pc' = "done"
    /\ UNCHANGED <<args, env, loc, row>>

SpecHistory == InitHistory /\ [][CallExtractStateHistory]_vars

\* the positions of the updates in the order of their ids, equal ids in the
\* order received
C28_ByIdOrder ==
    LET n == Len(args.updates)
        before(v, u) == \/ args.updates[v].id < args.updates[u].id
                        \/ /\ args.updates[v].id = args.updates[u].id
                           /\ v < u
    IN  [i \in 1..n |->
            CHOOSE u \in 1..n : Cardinality({v \in 1..n : before(v, u)}) = i - 1]

\* the state changes in the order of the update ids, lower-cased, followed
\* by the normalized current state unless they end with it
C28_Changes ==
    LET changed == SelectSeq([i \in 1..Len(args.updates) |->
                                  args.updates[C28_ByIdOrder[i]]],
                             LAMBDA u : u.new_state # NoneStr)
        states == [i \in 1..Len(changed) |-> StripLower(changed[i].new_state)]
        current == StripLower(args.current_state)
    IN  IF states # <<>> /\ states[Len(states)] = current THEN states
        ELSE Append(states, current)

\* the position in the history of the k-th state change
RECURSIVE C28_Position(_)
C28_Position(k) ==
    IF k = 1 THEN 1
    ELSE C28_Position(k - 1)
             + (IF C28_Changes[k] = C28_Changes[k - 1] THEN 0 ELSE 1)

\* C28: the history returned by extract_state_history is, for every sequence
\* of update records and every current state, non-empty, lower-cased, free of
\* equal adjacent entries, ordered by update id, and ends with the normalized
\* current state; when fetching the updates fails it is the single current
\* state.
C28_HistoryWellFormed ==
    pc = "done" =>
        /\ ret # <<>>
        /\ \A i \in 1..Len(ret) : StripLower(ret[i]) = ret[i]
        /\ \A i \in 1..(Len(ret) - 1) : ret[i] # ret[i + 1]
        /\ ret[Len(ret)] = StripLower(args.current_state)
        /\ ~args.fetch_ok => ret = <<StripLower(args.current_state)>>
        /\ args.fetch_ok =>
              /\ Len(ret) = C28_Position(Len(C28_Changes))
              /\ \A k \in 1..Len(C28_Changes) :
                     ret[C28_Position(k)] = C28_Changes[k]

\* updates received out of order, one of them repeating the state before it:
\* the history is in id order, collapsed, and ends with the current state
C28_Witness ==
    /\ pc = "done"
    /\ args.fetch_ok
    /\ args.current_state = "Passed QA "
    /\ args.updates = <<Upd(3, NoTime, FALSE, "QA In Progress"),
                        Upd(1, NoTime, FALSE, "New"),
                        Upd(2, NoTime, FALSE, "New")>>
    /\ ret = <<"new", "qa in progress", "passed qa">>

\* the condition of one of the six severe rules holds for the inputs
C27_SevereRuleFires ==
    LET passed == NormState(args.state) = "passed qa"
        ts == Range(NormStates(args.test_states))
        h == NormStates(args.state_history)
        e == args.earliest_test_created_time
    IN  \/ passed /\ args.passed_qa_time # NoTime /\ e # NoTime
               /\ args.passed_qa_time < e
        \/ args.tests_reviewed /\ args.review_toggle_time # NoTime /\ e # NoTime
               /\ args.review_toggle_time < e
        \/ args.tests_authored /\ args.tc_count = 0
        \/ args.tests_reviewed /\ args.tc_count > 0
               /\ ~args.review_lifecycle_detected /\ "ready" \notin ts
        \/ passed /\ args.tc_count = 0
        \/ \E i \in 1..(Len(h) - 1) :
               h[i + 1] = "qa in progress" /\ h[i] \in {"design", "merged", "new"}

\* C27: the severe flag of evaluate_compliance is True if and only if one of
\* exactly these violations fired: test cases created after passed QA, review
\* toggle enabled before test creation, authored toggle on with zero test
\* cases, review toggle enabled without any test entering 'needs review' (and
\* none 'ready'), story passed QA without any test cases, QA started before
\* dev handoff; a verdict made of other violations only is never severe.
C27_SevereOnlyFromSevereRules ==
    pc = "done" =>
        /\ ret.severe <=> C27_SevereRuleFires
        /\ C27_SevereRuleFires <=>
               \E v \in Range(ret.status) :
                   v \in {V_PassedBeforeTests, V_ReviewBeforeTests, V_AuthoredNoTests,
                          V_ReviewNoLifecycle, V_PassedNoTests, V_QABeforeHandoff}

\* a passed story with toggle, state-consistency and workflow violations,
\* none of them a severe one
C27_Witness ==
    /\ pc = "done"
    /\ ~ret.severe
    /\ {V_TestsToggleOff, V_PassedNoAuthored, V_PassedNoReviewed, V_NotAllReady,
        V_SkippedQAIP} \subseteq Range(ret.status)

\* ------------------------------------------------------------------------
\* Repeated runs of run_qa_analysis over one database (src/main.py lines
\* 439-512): env is what persists between runs (the clock, the qa_history
\* and story_details tables, the report file), loc the run in progress, ret
\* what the last run returned, row the log of the runs that returned 'Success'
\* ------------------------------------------------------------------------

MaxRuns == 2
MaxDay == 2
MaxHour == 2
MaxRunStories == 2

\* a table that was never created
NoTable == [exists |-> FALSE, rows |-> {}]

\* line 50-54: the last segment of System.IterationPath
detect_sprint_from_story(story) ==
    CASE story.iteration_path = "" -> "Unknown_Sprint"
      [] story.iteration_path = "Proj\\Sprint 1" -> "Sprint 1"
      [] story.iteration_path = "Proj\\Release\\Sprint 2" -> "Sprint 2"
      [] OTHER -> story.iteration_path

\* DATE(run_date) of SQLite on the ISO timestamp that append_history stored
DATE(run_date) == run_date.day

\* lines 61-80 with run_date compared to the current timestamp, DATE() left out
already_ran_todayExactTimestamp(db, now, sprint_name) ==
    IF db.qa_history = NoTable
    THEN FALSE
    ELSE Cardinality({r \in db.qa_history.rows :
                         r.sprint = sprint_name /\ r.run_date = now}) > 0

\* lines 61-80: the count of qa_history rows of the sprint dated today; the
\* query on a missing table raises and the except clause answers False
already_ran_today(db, now, sprint_name) ==
    IF db.qa_history = NoTable
    THEN FALSE
    ELSE LET today == now.day
         IN  Cardinality({r \in db.qa_history.rows :
                             r.sprint = sprint_name /\ DATE(r.run_date) = today}) > 0

\* src/app/analytics/history_engine.py lines 83-235: one summary row per QA
\* of the rows with the number of its stories, stamped with the current
\* time; the rows of the sprint are deleted first, the table created if missing
append_history(db, now, sprint_name, rows) ==
    LET old == db.qa_history.rows
        qas == {rows[i].QA : i \in 1..Len(rows)}
        summary == {[run_date |-> now, sprint |-> sprint_name, qa |-> q,
                     stories |-> Cardinality({i \in 1..Len(rows) : rows[i].QA = q})] :
                    q \in qas}
    IN  [exists |-> TRUE, rows |-> {r \in old : r.sprint # sprint_name} \cup summary]

\* lines 145-191: insert, or update on a conflict of (story_id, sprint)
save_story_details(details, rows) ==
    LET new == {[sprint |-> rows[i].Sprint, story_id |-> rows[i].StoryID,
                 qa |-> rows[i].QA] : i \in 1..Len(rows)}
    IN  {d \in details : \A n \in new :
                             ~(n.sprint = d.sprint /\ n.story_id = d.story_id)} \cup new

\* the database of a first run, or one that holds today's row of Sprint 1
InitRerun ==
    /\ pc = "idle"
    /\ args = NoResult
    /\ ret = NoResult
    /\ \E had_run \in BOOLEAN :
          env = [now |-> [day |-> 1, hour |-> 1],
                 qa_history |->
                    IF had_run
                    THEN [exists |-> TRUE,
                          rows |-> {[run_date |-> [day |-> 1, hour |-> 1],
                                     sprint |-> "Sprint 1", qa |-> "qa1", stories |-> 1]}]
                    ELSE NoTable,
                 story_details |->
                    IF had_run
                    THEN {[sprint |-> "Sprint 1", story_id |-> 1, qa |-> "qa1"]}
                    ELSE {},
                 report |-> <<>>]
    /\ loc = [run |-> 0, sprint_name |-> "", index |-> 0, rows |-> <<>>, processed |-> 0]
    /\ row = {}

\* lines 439-463: the story ids of the query, 'No Data' when there are none,
\* and the sprint of the first story, whose fetch is not guarded; what
\* process_story returns for each story is part of the run's input
StartRun ==
    /\ pc = "idle"
    /\ loc.run < MaxRuns
    /\ \E ip \in {"", "Proj\\Sprint 1", "Proj\\Release\\Sprint 2"},
          qas \in SeqsUpTo({NoneStr, "qa1", "qa2"}, MaxRunStories),
          first_ok \in BOOLEAN :
          LET stories == [i \in 1..Len(qas) |->
                             [iteration_path |-> IF i = 1 THEN ip ELSE "Proj\\Sprint 1",
                              qa |-> qas[i]]]
          IN
          /\ args' = [story_ids |-> stories]
          /\ IF stories = <<>>
             THEN /\ pc' = "returned"
                  /\ ret' = [status |-> "No Data"]
                  /\ UNCHANGED row
                  /\ loc' = [run |-> loc.run + 1, sprint_name |-> "", index |-> 0,
                             rows |-> <<>>, processed |-> 0]
             ELSE IF ~first_ok
             THEN /\ pc' = "raised"
                  /\ ret' = Raised("Exception")
                  /\ UNCHANGED row
                  /\ loc' = [run |-> loc.run + 1, sprint_name |-> "", index |-> 0,
                             rows |-> <<>>, processed |-> 0]
             ELSE /\ pc' = "check"
                  /\ ret' = NoResult
                  /\ UNCHANGED row
                  /\ loc' = [run |-> loc.run + 1,
                             sprint_name |-> detect_sprint_from_story(stories[1]),
                             index |-> 0, rows |-> <<>>, processed |-> 0]
    /\ UNCHANGED env

\* lines 465-476: duplicate run protection
CheckDuplicate ==
    /\ pc = "check"
    /\ IF already_ran_today(env, env.now, loc.sprint_name)
       THEN /\ pc' = "returned"
            /\ ret' = [status |-> "Skipped", message |-> "Already executed today.",
                        sprint |-> loc.sprint_name]
       ELSE /\ pc' = "process"
            /\ UNCHANGED ret
    /\ UNCHANGED <<args, env, loc, row>>

\* lines 478-485: process_story of the next story id; a result is appended
ProcessNextStory ==
    /\ pc = "process"
    /\ loc.index < Len(args.story_ids)
    /\ LET sid == loc.index + 1
           result == IF args.story_ids[sid].qa = NoneStr
                     THEN NoRow
                     ELSE [Sprint |-> loc.sprint_name, StoryID |-> sid,
                           QA |-> args.story_ids[sid].qa]
       IN  loc' = [loc EXCEPT !.index = sid,
                              !.processed = @ + 1,
                              !.rows = IF result # NoRow THEN Append(@, result) ELSE @]
    /\ UNCHANGED <<pc, args, ret, env, row>>

\* lines 490-512: 'No Data' without rows; else save_report, append_history
\* and save_story_details, and 'Success'
SaveRun ==
    /\ pc = "process"
    /\ loc.index = Len(args.story_ids)
    /\ pc' = "returned"
    /\ IF loc.rows = <<>>
       THEN /\ ret' = [status |-> "No Data"]
            /\ UNCHANGED <<env, row>>
       ELSE /\ ret' = [status |-> "Success", stories_processed |-> Len(loc.rows),
                       sprint |-> loc.sprint_name]
            /\ env' = [env EXCEPT
                          !.report = loc.rows,
                          !.qa_history = append_history(env, env.now, loc.sprint_name,
                                                        loc.rows),
                          !.story_details = save_story_details(@, loc.rows)]
            /\ row' = row \cup {[result |-> ret', run |-> loc.run,
                                   day |-> env.now.day]}
    /\ UNCHANGED <<args, loc>>

\* the caller has the result and may start the next run; every 'Success'
\* above is logged in row with the day it was returned
ReturnToCaller ==
    /\ pc \in {"returned", "raised"}
    /\ pc' = "idle"
    /\ UNCHANGED <<args, ret, env, loc, row>>

\* datetime.now() moves on, at any point of a run or between runs
Tick ==
    /\ \/ env.now.hour < MaxHour
       \/ env.now.day < MaxDay
    /\ env' = [env EXCEPT !.now = IF env.now.hour < MaxHour
                                  THEN [day |-> env.now.day, hour |-> env.now.hour + 1]
                                  ELSE [day |-> env.now.day + 1, hour |-> 1]]
    /\ UNCHANGED <<pc, args, ret, loc, row>>

NextRerun ==
    \/ StartRun
    \/ CheckDuplicate
    \/ ProcessNextStory
    \/ SaveRun
    \/ ReturnToCaller
    \/ Tick

SpecRerun == InitRerun /\ [][NextRerun]_vars

\* the results that persist: report file, qa_history and story_details
C30_Persisted == [report |-> env.report, qa_history |-> env.qa_history,
                  story_details |-> env.story_details]

\* qa_history holds a row of the run's sprint dated today
C30_HoldsRowToday ==
    /\ env.qa_history.exists
    /\ \E r \in env.qa_history.rows :
          r.sprint = loc.sprint_name /\ r.run_date.day = env.now.day

\* an earlier run returned 'Success' for the run's sprint today
C30_SucceededToday ==
    \E s \in row :
        /\ s.run < loc.run
        /\ s.result.status = "Success"
        /\ s.result.sprint = loc.sprint_name
        /\ s.day = env.now.day

====
